---- MODULE Spec2Model ----
(***************************************************************************)
(* Task lifecycle engine of ratus: the in-memory engine (go-memdb, one     *)
(* write transaction per call) and the MongoDB engine (atomic path and     *)
(* optimistic path of every dual-path operation), the normalizers that     *)
(* run in front of the engine, and the chore pass.                         *)
(*                                                                         *)
(* Modelling conventions                                                   *)
(*  - a Go pointer or optional value is a sequence: <<>> is nil, <<v>> is  *)
(*    a value; a nonce is a sequence too, <<>> being the empty string;     *)
(*  - time is an integer number of ticks; Epoch is time.UnixMilli(0) and   *)
(*    Epoch - 1 stands for any timestamp before 1970;                      *)
(*  - nonce.Generate draws 16 random characters; it is modelled as a       *)
(*    supply of fresh values <<1>>, <<2>>, ... (no collision);             *)
(*  - the store is a set of task records, so that the uniqueness of ids    *)
(*    is something the operations have to maintain;                        *)
(*  - a memdb call is one write transaction, hence one step; a MongoDB     *)
(*    command (FindOneAndUpdate, UpdateMany, BulkWrite, ...) is one step,  *)
(*    and a call made of several commands is several steps;                *)
(*  - last is the response of the step just taken, spent the history of    *)
(*    the nonces that stopped being valid; neither decides a step.         *)
(***************************************************************************)
EXTENDS Integers, Sequences, FiniteSets, TLC

\* ------------------------------------------------------------------ bounds
MaxTime == 1
MaxNonce == 2
MaxCalls == 3

\* --------------------------------------------------------- program constants
TaskStatePending == 0
TaskStateActive == 1
TaskStateCompleted == 2
TaskStateArchived == 3
Epoch == 0
DefaultTimeout == 1

\* ------------------------------------------------------------ value domains
IDs == {"1", "2"}
TopicOrder == <<"alpha", "beta">>
Topics == {TopicOrder[i] : i \in 1..Len(TopicOrder)}
Procs == {"c1", "c2", "c3"}
Nil == <<>>
Some(v) == <<v>>
Val(o) == o[1]
EmptyNonce == <<>>
ClientNonce == <<0>>
Clock == Epoch..MaxTime

\* the request paths /topics/{topic}/tasks/{id} the clients use
Paths == {[id |-> "1", topic |-> TopicOrder[1]], [id |-> "2", topic |-> TopicOrder[2]]}

VARIABLES
    engine,     \* "memdb" or "mongodb": the storage engine the server runs
    sharded,    \* the MongoDB collection rejects the atomic commands (code 61 / 31025)
    fallback,   \* MongoDB fallback flags, one atomic.Int32 per dual-path operation
    tasks,      \* the task table / collection: a set of task records
    now,        \* the host clock (time.Now)
    nextNonce,  \* the next value nonce.Generate returns
    pc,         \* per caller: where its engine call stands
    loc,        \* per caller: the locals of its engine call
    last,       \* the response produced by the step just taken (NoResult if none)
    ret,        \* per caller: the response of its latest call, when observed
    observe,    \* whether responses are collected in ret
    spent,      \* history: [ever |-> nonces invalidated, back |-> those stored again by an insert/upsert]
    origin,     \* history: the store the run started from
    calls,      \* the number of calls made so far
    snapshotPath, \* Config.SnapshotPath of the in-memory engine ("" if none)
    file,       \* the snapshot file at that path
    srv,        \* the cmd/ratus process: its server, chore loop and shutdown
    cli         \* the client: the Context of the task it polled and the commits made on it

vars == <<engine, sharded, fallback, tasks, now, nextNonce, pc, loc, last, ret, observe, spent,
          origin, calls, snapshotPath, file, srv, cli>>

\* ------------------------------------------------------------------ records
NoTask == [id |-> ""]
NoLoc == [op |-> ""]
NoResult == [op |-> ""]
NoRet == [op |-> ""]
\* the cmd/ratus process before run() has started
NoServer == [started |-> FALSE, port |-> 0, interval |-> 0, signalled |-> FALSE,
             serveCh |-> FALSE, choreCh |-> FALSE, ctxDone |-> FALSE,
             server |-> "none", serve |-> "none", chore |-> "none",
             inflight |-> {}, passes |-> 0, failedPass |-> FALSE,
             closed |-> FALSE, exited |-> FALSE, onClosed |-> FALSE]

\* the client before it has polled a task
NoContext == [phase |-> "none", id |-> "", nonce |-> <<>>, committed |-> FALSE,
              calls |-> 0, sent |-> 0, applied |-> 0]

NoPromise == [id |-> "", consumer |-> "", deadline |-> Nil, valid |-> FALSE]

Task(id, topic, state, nonce, producer, consumer, produced, scheduled, consumed, deadline, payload) ==
    [id |-> id, topic |-> topic, state |-> state, nonce |-> nonce, producer |-> producer,
     consumer |-> consumer, produced |-> produced, scheduled |-> scheduled, consumed |-> consumed,
     deadline |-> deadline, payload |-> payload]

\* time.Time.After on optional timestamps that are known to be set
After(a, b) == a > b

\* byte order of the topic part of a compound index key (StringFieldIndex)
TopicRank(topic) == CHOOSE i \in 1..Len(TopicOrder) : TopicOrder[i] = topic

\* TimeFieldIndex.encodeInt64: flipping the sign bit makes the unsigned byte
\* order of the key equal to the signed order of the millisecond value
SignBit == MaxTime + 2
encodeInt64(v) == (v + SignBit) % (2 * SignBit)

\* ----------------------------------------------------------- normalizers
\* middleware.normalizeTask: id and topic are taken from the path when the
\* body leaves them out, the state must be in range, a missing produced time
\* becomes now, a missing scheduled time becomes now + defer (now when there is
\* no defer either)
normalizeTask(t, id, topic, n) ==
    LET tid == IF t.id = "" THEN id ELSE t.id
        ttopic == IF t.topic = "" /\ topic # "" THEN topic ELSE t.topic
        prod == IF t.produced = Nil THEN Some(n) ELSE t.produced
        sched == IF t.defer # Nil /\ t.scheduled = Nil THEN Some(n + Val(t.defer))
                 ELSE IF t.scheduled = Nil THEN Some(n) ELSE t.scheduled
    IN  IF tid = "" \/ (id # "" /\ tid # id) \/ ttopic = ""
           \/ t.state < TaskStatePending \/ t.state > TaskStateArchived
        THEN NoTask
        ELSE Task(tid, ttopic, t.state, t.nonce, t.producer, t.consumer, prod, sched, t.consumed,
                  t.deadline, t.payload)

\* variant of normalizePromise: a missing deadline stays missing
normalizePromiseNoDeadline(p, id, n) ==
    LET pid == IF id # "" /\ p.id = "" THEN id ELSE p.id
    IN  IF id # "" /\ pid # id
        THEN [id |-> "", consumer |-> "", deadline |-> Nil, valid |-> FALSE]
        ELSE [id |-> pid, consumer |-> p.consumer, deadline |-> p.deadline, valid |-> TRUE]

\* middleware.normalizePromise: a missing deadline becomes now + timeout, the
\* timeout defaulting to DefaultTimeout
normalizePromise(p, id, n) ==
    LET pid == IF id # "" /\ p.id = "" THEN id ELSE p.id
        timeout == IF p.timeout = Nil THEN DefaultTimeout ELSE Val(p.timeout)
        deadline == IF p.deadline = Nil THEN Some(n + timeout) ELSE p.deadline
    IN  IF id # "" /\ pid # id
        THEN [id |-> "", consumer |-> "", deadline |-> Nil, valid |-> FALSE]
        ELSE [id |-> pid, consumer |-> p.consumer, deadline |-> deadline, valid |-> TRUE]

\* middleware.normalizeCommit: a missing state becomes "completed", a missing
\* scheduled time with a defer becomes now + defer
\* variant of normalizeCommit: a missing state stays missing
normalizeCommitNoDefault(m, n) ==
    LET sched == IF m.defer # Nil /\ m.scheduled = Nil THEN Some(n + Val(m.defer)) ELSE m.scheduled
    IN  [nonce |-> m.nonce, topic |-> m.topic, state |-> m.state, scheduled |-> sched,
         payload |-> m.payload,
         valid |-> (m.state = Nil \/ (Val(m.state) >= TaskStatePending /\ Val(m.state) <= TaskStateArchived))]

normalizeCommit(m, n) ==
    LET state == IF m.state = Nil THEN Some(TaskStateCompleted) ELSE m.state
        sched == IF m.defer # Nil /\ m.scheduled = Nil THEN Some(n + Val(m.defer)) ELSE m.scheduled
    IN  [nonce |-> m.nonce, topic |-> m.topic, state |-> state, scheduled |-> sched,
         payload |-> m.payload,
         valid |-> (Val(state) >= TaskStatePending /\ Val(state) <= TaskStateArchived)]

\* --------------------------------------------------- in-memory engine (memdb)
\* go-memdb Txn.First on the unique id index
TxnFirst(store, id) ==
    IF \E t \in store : t.id = id THEN CHOOSE t \in store : t.id = id ELSE NoTask

\* go-memdb Txn.Insert: the object with the same primary key is replaced
TxnInsert(store, u) == {t \in store : t.id # u.id} \cup {u}

\* variant of updateOpsRecover: the nonce is left in place
updateOpsRecoverKeepNonce(v) == [v EXCEPT !.state = TaskStatePending]

updateOpsRecover(v) == [v EXCEPT !.state = TaskStatePending, !.nonce = EmptyNonce]

\* variant of updateOpsConsume: the consumer of the promise is not recorded
updateOpsConsumeNoConsumer(v, p, t, n) ==
    [v EXCEPT !.state = TaskStateActive, !.nonce = n, !.consumed = Some(t), !.deadline = p.deadline]

updateOpsConsume(v, p, t, n) ==
    [v EXCEPT !.state = TaskStateActive, !.nonce = n, !.consumer = p.consumer,
              !.consumed = Some(t), !.deadline = p.deadline]

\* variant of updateOpsCommit: the nonce is left in place
updateOpsCommitKeepNonce(v, m) ==
    [v EXCEPT !.topic = IF m.topic # "" THEN m.topic ELSE @,
              !.state = IF m.state # Nil THEN Val(m.state) ELSE @,
              !.scheduled = IF m.scheduled # Nil THEN m.scheduled ELSE @,
              !.payload = IF m.payload # Nil THEN m.payload ELSE @]

updateOpsCommit(v, m) ==
    [v EXCEPT !.nonce = EmptyNonce,
              !.topic = IF m.topic # "" THEN m.topic ELSE @,
              !.state = IF m.state # Nil THEN Val(m.state) ELSE @,
              !.scheduled = IF m.scheduled # Nil THEN m.scheduled ELSE @,
              !.payload = IF m.payload # Nil THEN m.payload ELSE @]

\* the pending-topic-scheduled index: pending tasks that have a scheduled time,
\* keyed by (topic, encoded scheduled time)
PendingTopicScheduledKey(t) == <<TopicRank(t.topic), encodeInt64(Val(t.scheduled))>>
KeyLeq(a, b) == a[1] < b[1] \/ (a[1] = b[1] /\ a[2] <= b[2])

\* Txn.LowerBound(pending-topic-scheduled, pending, topic, UnixMilli(0)): every
\* index entry whose key is not below (topic, Epoch), in key order; the
\* iterator is not confined to the topic
PollLowerBound(store, topic) ==
    {t \in store : /\ t.state = TaskStatePending
                   /\ t.scheduled # Nil
                   /\ KeyLeq(<<TopicRank(topic), encodeInt64(Epoch)>>, PendingTopicScheduledKey(t))}

\* it.Next() on that iterator: an entry with the smallest key
PollCandidates(store, topic) ==
    LET lb == PollLowerBound(store, topic)
    IN  {t \in lb : \A u \in lb : KeyLeq(PendingTopicScheduledKey(t), PendingTopicScheduledKey(u))}

\* the active-deadline index from UnixMilli(0) on, cut at the first deadline after n
ChoreRecoverSet(store, n) ==
    {t \in store : /\ t.state = TaskStateActive
                   /\ t.deadline # Nil
                   /\ encodeInt64(Epoch) <= encodeInt64(Val(t.deadline))
                   /\ ~After(Val(t.deadline), n)}

RetentionPeriod == 1

\* variant of ChoreExpireSet: the scan is not limited to completed tasks
ChoreExpireSetAnyState(store, n) ==
    {t \in store : /\ t.consumed # Nil
                   /\ encodeInt64(Epoch) <= encodeInt64(Val(t.consumed))
                   /\ ~After(Val(t.consumed) + RetentionPeriod, n)}

\* the completed-consumed index from UnixMilli(0) on, cut at the first task
\* whose consumed + RetentionPeriod is after n
ChoreExpireSet(store, n) ==
    {t \in store : /\ t.state = TaskStateCompleted
                   /\ t.consumed # Nil
                   /\ encodeInt64(Epoch) <= encodeInt64(Val(t.consumed))
                   /\ ~After(Val(t.consumed) + RetentionPeriod, n)}

\* the outcome of an engine call: the store it leaves and what it returns
Out(store, status, task, created, updated) ==
    [store |-> store, status |-> status, task |-> task, created |-> created, updated |-> updated]

memdbChore(store, n) ==
    LET recovered == {IF t \in ChoreRecoverSet(store, n) THEN updateOpsRecover(t) ELSE t : t \in store}
    IN  Out(recovered \ ChoreExpireSet(recovered, n), "ok", NoTask, 0, 0)

\* the set of outcomes: entries with equal keys may come in either order
memdbPoll(store, topic, p, n, nonce) ==
    IF PollCandidates(store, topic) = {}
    THEN {Out(store, "notfound", NoTask, 0, 0)}
    ELSE {IF After(Val(t.scheduled), n)
          THEN Out(store, "notfound", NoTask, 0, 0)
          ELSE Out(TxnInsert(store, updateOpsConsume(t, p, n, nonce)), "ok",
                   updateOpsConsume(t, p, n, nonce), 0, 0) : t \in PollCandidates(store, topic)}

\* variant of Commit: the nonce of the commit is not compared
memdbCommitUnchecked(store, id, m) ==
    LET t == TxnFirst(store, id)
    IN  IF t = NoTask THEN Out(store, "notfound", NoTask, 0, 0)
        ELSE Out(TxnInsert(store, updateOpsCommit(t, m)), "ok", updateOpsCommit(t, m), 0, 0)

memdbCommit(store, id, m) ==
    LET t == TxnFirst(store, id)
    IN  IF t = NoTask THEN Out(store, "notfound", NoTask, 0, 0)
        ELSE IF m.nonce # EmptyNonce /\ m.nonce # t.nonce THEN Out(store, "conflict", NoTask, 0, 0)
        ELSE Out(TxnInsert(store, updateOpsCommit(t, m)), "ok", updateOpsCommit(t, m), 0, 0)

\* variant of InsertTask: the task is stored as pending whatever its state
memdbInsertTaskAsPending(store, t) ==
    IF TxnFirst(store, t.id) # NoTask THEN Out(store, "conflict", NoTask, 0, 0)
    ELSE Out(TxnInsert(store, [t EXCEPT !.state = TaskStatePending]), "ok", NoTask, 1, 0)

\* variant of InsertTask: a stored task with the same id is overwritten
memdbInsertTaskOverwrite(store, t) == Out(TxnInsert(store, t), "ok", NoTask, 1, 0)

\* variant of InsertTask: an existing id is skipped without an error
memdbInsertTaskIgnoreExisting(store, t) ==
    IF TxnFirst(store, t.id) # NoTask THEN Out(store, "ok", NoTask, 0, 0)
    ELSE Out(TxnInsert(store, t), "ok", NoTask, 1, 0)

memdbInsertTask(store, t) ==
    IF TxnFirst(store, t.id) # NoTask THEN Out(store, "conflict", NoTask, 0, 0)
    ELSE Out(TxnInsert(store, t), "ok", NoTask, 1, 0)

memdbUpsertTask(store, t) ==
    LET u == IF TxnFirst(store, t.id) # NoTask THEN 1 ELSE 0
    IN  Out(TxnInsert(store, t), "ok", NoTask, 1 - u, u)

RECURSIVE memdbInsertTasks(_, _, _)
memdbInsertTasks(store, ts, c) ==
    IF ts = <<>> THEN Out(store, "ok", NoTask, c, 0)
    ELSE IF TxnFirst(store, Head(ts).id) # NoTask THEN memdbInsertTasks(store, Tail(ts), c)
    ELSE memdbInsertTasks(TxnInsert(store, Head(ts)), Tail(ts), c + 1)

RECURSIVE memdbUpsertTasksLoop(_, _, _)
memdbUpsertTasksLoop(store, ts, c) ==
    IF ts = <<>> THEN Out(store, "ok", NoTask, c, 0)
    ELSE memdbUpsertTasksLoop(TxnInsert(store, Head(ts)), Tail(ts),
                              IF TxnFirst(store, Head(ts).id) = NoTask THEN c + 1 ELSE c)

memdbUpsertTasks(store, ts) ==
    LET o == memdbUpsertTasksLoop(store, ts, 0)
    IN  Out(o.store, "ok", NoTask, o.created, Len(ts) - o.created)

memdbDeleteTask(store, id) ==
    Out({t \in store : t.id # id}, "ok", NoTask, 0, Cardinality({t \in store : t.id = id}))

memdbInsertPromise(store, p, n, nonce) ==
    LET t == TxnFirst(store, p.id)
    IN  IF t = NoTask THEN Out(store, "notfound", NoTask, 0, 0)
        ELSE IF t.state # TaskStatePending THEN Out(store, "conflict", NoTask, 0, 0)
        ELSE Out(TxnInsert(store, updateOpsConsume(t, p, n, nonce)), "ok",
                 updateOpsConsume(t, p, n, nonce), 0, 0)

\* variant of UpsertPromise: a task that is not pending is refused
memdbUpsertPromiseIfPending(store, p, n, nonce) == memdbInsertPromise(store, p, n, nonce)

memdbUpsertPromise(store, p, n, nonce) ==
    LET t == TxnFirst(store, p.id)
    IN  IF t = NoTask THEN Out(store, "notfound", NoTask, 0, 0)
        ELSE Out(TxnInsert(store, updateOpsConsume(t, p, n, nonce)), "ok",
                 updateOpsConsume(t, p, n, nonce), 0, 0)

memdbDeletePromise(store, id) ==
    LET t == TxnFirst(store, id)
    IN  IF t # NoTask /\ t.state = TaskStateActive
        THEN Out(TxnInsert(store, updateOpsRecover(t)), "ok", NoTask, 0, 1)
        ELSE Out(store, "ok", NoTask, 0, 0)

memdbDeletePromises(store, topic) ==
    LET a == {t \in store : t.state = TaskStateActive /\ t.topic = topic}
    IN  Out({IF t \in a THEN updateOpsRecover(t) ELSE t : t \in store}, "ok", NoTask, 0, Cardinality(a))

\* the (id, consumer, deadline) projection of a task that GetPromise returns
Promise(t) == [id |-> t.id, consumer |-> t.consumer, deadline |-> t.deadline, valid |-> TRUE]

\* memdb GetPromise: the task of the id, which must be in the pending state
memdbGetPromise(store, id) ==
    LET t == TxnFirst(store, id)
    IN  IF t = NoTask THEN [status |-> "notfound", promise |-> NoPromise]
        ELSE IF t.state # TaskStatePending THEN [status |-> "notfound", promise |-> NoPromise]
        ELSE [status |-> "ok", promise |-> Promise(t)]

\* ------------------------------------------------- snapshots (encoding/gob)
\* the snapshot file: missing, or the encoded records written by save
NoFile == [exists |-> FALSE, records |-> <<>>]

\* the zero value of ratus.Task: what a decoder starts from
ZeroTask == Task("", "", TaskStatePending, EmptyNonce, "", "", Nil, Nil, Nil, Nil, Nil)

\* the Go type that holds a payload decoded from JSON
GoType(v) ==
    CASE v = "3.14" -> "float64"
      [] v = "true" -> "bool"
      [] v = "[1,2]" -> "[]interface {}"
      [] v = "{}" -> "map[string]interface {}"
      [] OTHER -> "string"

\* variant of Registered: only the types gob registers by itself
RegisteredBasicsOnly == {"bool", "float64", "string"}

\* the types gob can send inside an interface value: its basic types and
\* those registered by ratus.init
Registered == {"bool", "float64", "string", "[]interface {}", "map[string]interface {}"}

\* Encoder.Encode fails on an interface value whose type is not registered
gobEncodable(t) == t.payload = Nil \/ GoType(Val(t.payload)) \in Registered

\* Encoder.Encode of a task: the fields that differ from their zero value
gobEncode(t) == [f \in {g \in DOMAIN t : t[g] # ZeroTask[g]} |-> t[f]]

\* Decoder.Decode into a fresh ratus.Task: the fields sent, zero elsewhere
gobDecode(r) == [f \in DOMAIN ZeroTask |-> IF f \in DOMAIN r THEN r[f] ELSE ZeroTask[f]]

\* the records of the store in the order of the id index
IdOrder == <<"1", "2">>
RECURSIVE encodeAll(_, _)
encodeAll(store, order) ==
    IF order = <<>> THEN <<>>
    ELSE (IF TxnFirst(store, Head(order)) = NoTask THEN <<>>
          ELSE <<gobEncode(TxnFirst(store, Head(order)))>>) \o encodeAll(store, Tail(order))

\* save: the records go to a temporary file that replaces the snapshot file
\* when every record was encoded, and is removed otherwise
save(store, old) ==
    IF \A t \in store : gobEncodable(t)
    THEN [status |-> "ok", file |-> [exists |-> TRUE, records |-> encodeAll(store, IdOrder)]]
    ELSE [status |-> "error", file |-> old]

\* load: the records of the snapshot file are decoded and inserted one by
\* one into the new database; a missing file is not an error
RECURSIVE loadAll(_, _)
loadAll(store, records) ==
    IF records = <<>> THEN store
    ELSE loadAll(TxnInsert(store, gobDecode(Head(records))), Tail(records))

load(f) == IF f.exists THEN loadAll({}, f.records) ELSE {}

\* ------------------------------------------------------ MongoDB engine
FlagOps == {"Poll", "Commit", "UpsertTasks", "UpsertTask", "InsertPromise", "UpsertPromise"}

\* Engine.Fallback: all flags take the given value
Fallback(v) == [o \in FlagOps |-> v]

\* variant of branch: a rejected atomic command falls back even when auto
\* fallback is disabled
branchAlwaysFallback(flag, rejected) ==
    IF flag > 0 THEN [path |-> "fallback", flag |-> flag]
    ELSE IF ~rejected THEN [path |-> "preferred", flag |-> flag]
    ELSE [path |-> "fallback", flag |-> 1]

\* branch: which implementation a call runs under the given flag, and the
\* value it leaves in the flag.  "error" is the server error of the atomic
\* command returned to the caller when auto fallback is disabled.
branch(flag, rejected) ==
    IF flag > 0 THEN [path |-> "fallback", flag |-> flag]
    ELSE IF ~rejected THEN [path |-> "preferred", flag |-> flag]
    ELSE IF flag < 0 THEN [path |-> "error", flag |-> flag]
    ELSE [path |-> "fallback", flag |-> 1]

\* Engine.peek: the projection (id, topic, state, nonce) of a document
peek(t) == [id |-> t.id, topic |-> t.topic, state |-> t.state, nonce |-> t.nonce]

\* Engine.exists
exists(store, id) == \E t \in store : t.id = id

\* variant of InsertOne: no unique index on the id
InsertOneNoIndex(store, t) == [store |-> store \cup {t}, ok |-> TRUE]

\* the collection's unique _id index: InsertOne fails on a duplicate key
InsertOne(store, t) ==
    IF exists(store, t.id) THEN [store |-> store, ok |-> FALSE]
    ELSE [store |-> store \cup {t}, ok |-> TRUE]

\* FindOneAndUpdate on one matching document: it is replaced by its update
UpdateOne(store, t, u) == (store \ {t}) \cup {u}

queryOpsPoll(t, topic, n) ==
    /\ t.state = TaskStatePending
    /\ t.topic = topic
    /\ t.scheduled # Nil
    /\ Val(t.scheduled) <= n

\* the documents FindOne / FindOneAndUpdate may return under sort {scheduled: 1}
PollMatches(store, topic, n) ==
    LET m == {t \in store : queryOpsPoll(t, topic, n)}
    IN  {t \in m : \A u \in m : Val(t.scheduled) <= Val(u.scheduled)}

mongoUpdateOpsRecover(v) == [v EXCEPT !.state = TaskStatePending, !.nonce = EmptyNonce]

mongoUpdateOpsConsume(v, p, t, n) ==
    [v EXCEPT !.state = TaskStateActive, !.nonce = n, !.consumer = p.consumer,
              !.consumed = Some(t), !.deadline = p.deadline]

\* variant of the MongoDB updateOpsCommit: the deadline is unset as well
mongoUpdateOpsCommitDropDeadline(v, m) ==
    [v EXCEPT !.nonce = EmptyNonce,
              !.deadline = Nil,
              !.topic = IF m.topic # "" THEN m.topic ELSE @,
              !.state = IF m.state # Nil THEN Val(m.state) ELSE @,
              !.scheduled = IF m.scheduled # Nil THEN m.scheduled ELSE @,
              !.payload = IF m.payload # Nil THEN m.payload ELSE @]

mongoUpdateOpsCommit(v, m) ==
    [v EXCEPT !.nonce = EmptyNonce,
              !.topic = IF m.topic # "" THEN m.topic ELSE @,
              !.state = IF m.state # Nil THEN Val(m.state) ELSE @,
              !.scheduled = IF m.scheduled # Nil THEN m.scheduled ELSE @,
              !.payload = IF m.payload # Nil THEN m.payload ELSE @]

\* variant of the MongoDB Chore: the filter leaves out the state
mongodbChoreAnyState(store, n) ==
    Out({IF t.deadline # Nil /\ Val(t.deadline) < n
         THEN mongoUpdateOpsRecover(t) ELSE t : t \in store}, "ok", NoTask, 0, 0)

mongodbChore(store, n) ==
    Out({IF t.state = TaskStateActive /\ t.deadline # Nil /\ Val(t.deadline) < n
         THEN mongoUpdateOpsRecover(t) ELSE t : t \in store}, "ok", NoTask, 0, 0)

pollAtomic(store, topic, p, n, nonce) ==
    IF PollMatches(store, topic, n) = {}
    THEN {Out(store, "notfound", NoTask, 0, 0)}
    ELSE {Out(UpdateOne(store, t, mongoUpdateOpsConsume(t, p, n, nonce)), "ok",
              mongoUpdateOpsConsume(t, p, n, nonce), 0, 0) : t \in PollMatches(store, topic, n)}

\* pollOptimistic, second command: the filter of the peek plus the id and the
\* nonce of the candidate c; t is the time taken before the peek
PollOptimisticFilter(d, topic, t, c) ==
    queryOpsPoll(d, topic, t) /\ d.id = c.id /\ d.nonce = c.nonce

\* variant of the commitAtomic filter: the id alone
CommitAtomicFilterById(d, id, m) == d.id = id

\* commitAtomic: the filter is the id, plus the nonce when the commit has one
CommitAtomicFilter(d, id, m) ==
    d.id = id /\ (m.nonce # EmptyNonce => d.nonce = m.nonce)

\* commitOptimistic: the nonce check on the peeked candidate
\* variant of the commitOptimistic nonce check: every nonce passes
CommitOptimisticCheckSkipped(c, m) == TRUE

CommitOptimisticCheck(c, m) == ~(m.nonce # EmptyNonce /\ m.nonce # c.nonce)

\* variant of the commitOptimistic filter: the peeked state is left out
CommitOptimisticFilterNoState(d, id, c) == d.id = id /\ d.topic = c.topic /\ d.nonce = c.nonce

\* variant of the commitOptimistic filter: the id alone
CommitOptimisticFilterById(d, id, c) == d.id = id

\* commitOptimistic, second command: id plus the peeked topic, state and nonce
CommitOptimisticFilter(d, id, c) ==
    d.id = id /\ d.topic = c.topic /\ d.state = c.state /\ d.nonce = c.nonce

\* variant of the insertPromiseAtomic filter: the id alone
InsertPromiseAtomicFilterById(d, p) == d.id = p.id

InsertPromiseAtomicFilter(d, p) == d.id = p.id /\ d.state = TaskStatePending

\* variant of the insertPromiseOptimistic filter: the id alone
InsertPromiseOptimisticFilterById(d, p, c) == d.id = p.id

InsertPromiseOptimisticFilter(d, p, c) ==
    d.id = p.id /\ d.topic = c.topic /\ d.state = TaskStatePending /\ d.nonce = c.nonce

\* variant of the upsertPromiseOptimistic filter: only a pending task matches
UpsertPromiseOptimisticFilterPending(d, p, c) ==
    d.id = p.id /\ d.topic = c.topic /\ d.state = TaskStatePending /\ d.nonce = c.nonce

UpsertPromiseOptimisticFilter(d, p, c) ==
    d.id = p.id /\ d.topic = c.topic /\ d.state = c.state /\ d.nonce = c.nonce

mongodbInsertTask(store, t) ==
    IF InsertOne(store, t).ok THEN Out(InsertOne(store, t).store, "ok", NoTask, 1, 0)
    ELSE Out(store, "conflict", NoTask, 0, 0)

\* unordered bulk insert: every task whose id is free is inserted
RECURSIVE mongodbInsertTasksLoop(_, _, _)
mongodbInsertTasksLoop(store, ts, c) ==
    IF ts = <<>> THEN Out(store, "ok", NoTask, c, 0)
    ELSE mongodbInsertTasksLoop(InsertOne(store, Head(ts)).store, Tail(ts),
                                IF InsertOne(store, Head(ts)).ok THEN c + 1 ELSE c)

\* variant of InsertTasks: an ordered bulk write, which stops at the first
\* duplicate key
RECURSIVE mongodbInsertTasksOrderedLoop(_, _, _)
mongodbInsertTasksOrderedLoop(store, ts, c) ==
    IF ts = <<>> THEN Out(store, "ok", NoTask, c, 0)
    ELSE IF ~InsertOne(store, Head(ts)).ok THEN Out(store, "ok", NoTask, c, 0)
    ELSE mongodbInsertTasksOrderedLoop(InsertOne(store, Head(ts)).store, Tail(ts), c + 1)

mongodbInsertTasksOrdered(store, ts) == mongodbInsertTasksOrderedLoop(store, ts, 0)

mongodbInsertTasks(store, ts) == mongodbInsertTasksLoop(store, ts, 0)

\* ReplaceOne with upsert: UpsertedCount when the id was free, ModifiedCount
\* when a stored document was changed by the replacement
ReplaceOne(store, t) ==
    IF exists(store, t.id)
    THEN Out({d \in store : d.id # t.id} \cup {t}, "ok", NoTask, 0, IF t \in store THEN 0 ELSE 1)
    ELSE Out(store \cup {t}, "ok", NoTask, 1, 0)

\* variant of upsertTaskReplace: a stored task is kept as it is
upsertTaskReplaceKeepStored(store, t) ==
    IF exists(store, t.id) THEN Out(store, "ok", NoTask, 0, 1) ELSE Out(store \cup {t}, "ok", NoTask, 1, 0)

upsertTaskReplace(store, t) == ReplaceOne(store, t)

RECURSIVE upsertTasksReplaceLoop(_, _, _, _)
upsertTasksReplaceLoop(store, ts, c, u) ==
    IF ts = <<>> THEN Out(store, "ok", NoTask, c, u)
    ELSE upsertTasksReplaceLoop(ReplaceOne(store, Head(ts)).store, Tail(ts),
                                c + ReplaceOne(store, Head(ts)).created,
                                u + ReplaceOne(store, Head(ts)).updated)

upsertTasksReplace(store, ts) == upsertTasksReplaceLoop(store, ts, 0, 0)

\* upsertTasksDeleteAndInsert, first bulk write: one DeleteOne per task
RECURSIVE DeleteBatch(_, _, _)
DeleteBatch(store, ts, d) ==
    IF ts = <<>> THEN Out(store, "ok", NoTask, 0, d)
    ELSE IF exists(store, Head(ts).id)
         THEN DeleteBatch(store \ {CHOOSE x \in store : x.id = Head(ts).id}, Tail(ts), d + 1)
         ELSE DeleteBatch(store, Tail(ts), d)

mongodbDeleteTask(store, id) ==
    IF exists(store, id)
    THEN Out(store \ {CHOOSE x \in store : x.id = id}, "ok", NoTask, 0, 1)
    ELSE Out(store, "ok", NoTask, 0, 0)

upsertPromiseAtomic(store, p, n, nonce) ==
    IF exists(store, p.id)
    THEN LET t == CHOOSE x \in store : x.id = p.id
         IN  Out(UpdateOne(store, t, mongoUpdateOpsConsume(t, p, n, nonce)), "ok",
                 mongoUpdateOpsConsume(t, p, n, nonce), 0, 0)
    ELSE Out(store, "notfound", NoTask, 0, 0)

mongodbDeletePromise(store, id) ==
    IF \E t \in store : t.id = id /\ t.state = TaskStateActive
    THEN LET t == CHOOSE x \in store : x.id = id /\ x.state = TaskStateActive
         IN  Out(UpdateOne(store, t, mongoUpdateOpsRecover(t)), "ok", NoTask, 0, 1)
    ELSE Out(store, "ok", NoTask, 0, 0)

mongodbDeletePromises(store, topic) ==
    LET a == {t \in store : t.state = TaskStateActive /\ t.topic = topic}
    IN  Out({IF t \in a THEN mongoUpdateOpsRecover(t) ELSE t : t \in store}, "ok", NoTask, 0, Cardinality(a))

\* MongoDB GetPromise: FindOne with the filter {_id: id, state: active}
mongodbGetPromise(store, id) ==
    IF \E t \in store : t.id = id /\ t.state = TaskStateActive
    THEN [status |-> "ok",
          promise |-> Promise(CHOOSE t \in store : t.id = id /\ t.state = TaskStateActive)]
    ELSE [status |-> "notfound", promise |-> NoPromise]

\* ------------------------------------------------------------- requests
\* request bodies of POST/PUT /topics/{topic}/tasks/{id}: the id and the topic
\* come from the path; n is the time of the request
RawTask(state, nonce, scheduled, defer, consumed) ==
    [id |-> "", topic |-> "", state |-> state, nonce |-> nonce, producer |-> "p", consumer |-> "",
     produced |-> Nil, scheduled |-> scheduled, defer |-> defer, consumed |-> consumed,
     deadline |-> Nil, payload |-> Some("a")]

RawTasks ==
    { RawTask(TaskStatePending, EmptyNonce, Nil, Nil, Nil),
      RawTask(TaskStatePending, EmptyNonce, Nil, Some(1), Nil),
      RawTask(TaskStatePending, ClientNonce, Nil, Nil, Nil),
      RawTask(TaskStateActive, EmptyNonce, Nil, Nil, Nil) }

\* the bodies of the batch requests: two tasks, with different ids or the same id
RawBatches ==
    { <<[RawTask(TaskStatePending, EmptyNonce, Nil, Nil, Nil) EXCEPT !.id = i[1]],
        [RawTask(TaskStatePending, EmptyNonce, Nil, Nil, Nil) EXCEPT !.id = i[2]]>> :
      i \in {<<"1", "2">>, <<"2", "2">>} }

\* promises: no deadline (the default timeout applies), a deadline before the epoch
RawPromises ==
    {[id |-> "", consumer |-> "w", deadline |-> d, timeout |-> Nil] : d \in {Nil, Some(Epoch - 1)}}

\* the nonces a client can send: its own, and every nonce handed out so far
KnownNonces == {ClientNonce} \cup {Some(k) : k \in 1..(nextNonce - 1)}

RawCommit(nonce, topic, state, defer, payload) ==
    [nonce |-> nonce, topic |-> topic, state |-> state, scheduled |-> Nil, defer |-> defer,
     payload |-> payload]

RawCommits ==
    UNION {{ RawCommit(k, "", Nil, Nil, Nil),
             RawCommit(k, "", Some(TaskStateActive), Nil, Nil),
             RawCommit(k, TopicOrder[2], Some(TaskStateArchived), Some(1), Some("b")) } :
           k \in {EmptyNonce} \cup KnownNonces}

\* ----------------------------------------------------------- bookkeeping
\* the nonces of the old store that the new store no longer holds for the task
Invalidated(old, new) ==
    {<<t.id, t.nonce>> : t \in {x \in old : x.nonce # EmptyNonce
                                     /\ ~\E u \in new : u.id = x.id /\ u.nonce = x.nonce}}

\* the history of nonces after a step of the given kind: "queue" for a claim, a
\* commit, a promise deletion or a chore pass (they invalidate nonces), "write"
\* for an insert or upsert (it may store an invalidated nonce again), "other"
\* for the rest; m is the nonce a successful commit carried (EmptyNonce if none)
SpentAfter(old, new, kind, id, m) ==
    LET gone == IF kind = "queue" THEN Invalidated(old, new) ELSE {}
        again == IF kind = "write"
                 THEN {<<u.id, u.nonce>> : u \in {x \in new : <<x.id, x.nonce>> \in spent.ever}}
                 ELSE {}
    IN  [ever |-> spent.ever \cup gone,
         back |-> (spent.back \ gone) \cup again,
         reused |-> IF m # EmptyNonce /\ <<id, m>> \in spent.back
                    THEN spent.reused \cup {<<id, m>>} ELSE spent.reused]

Idle(p) == pc[p] = "idle"

\* p starts a call (the number of calls of a run is bounded)
Begin(p) ==
    /\ Idle(p)
    /\ observe \/ calls < MaxCalls
    /\ calls' = IF observe THEN calls ELSE calls + 1
Rest == IF observe THEN "done" ELSE "idle"

\* the call of p returns: the store, the response and the history are updated;
\* body is the request body (the promise of a claim, the commit of a commit, the
\* tasks of an insert or upsert) or the promise a read returns, and at the time
\* the call read from the clock
Answer(p, op, out, id, topic, nonce, kind, body, at) ==
    /\ tasks' = out.store
    /\ last' = [op |-> op, status |-> out.status, id |-> id, topic |-> topic,
                nonce |-> nonce, task |-> out.task, created |-> out.created,
                updated |-> out.updated, body |-> body, at |-> at]
    /\ ret' = IF observe
              THEN [ret EXCEPT ![p] = [op |-> op, status |-> out.status, id |-> id, topic |-> topic,
                                       nonce |-> nonce, task |-> out.task, created |-> out.created,
                                       updated |-> out.updated, body |-> body]]
              ELSE ret
    /\ pc' = [pc EXCEPT ![p] = Rest]
    /\ loc' = [loc EXCEPT ![p] = NoLoc]
    /\ spent' = SpentAfter(tasks, out.store, kind, id,
                           IF op = "Commit" /\ out.status = "ok" THEN nonce ELSE EmptyNonce)

Respond(p, op, out, id, topic, nonce, kind) ==
    Answer(p, op, out, id, topic, nonce, kind, NoPromise, now)

Return(p, op, out, id, nonce, kind) == Respond(p, op, out, id, "", nonce, kind)

\* the answer to a claim
Claimed(p, op, out, id, topic, pr, at) == Answer(p, op, out, id, topic, EmptyNonce, "queue", pr, at)

\* the answer to an insert or upsert of the tasks ts
Written(p, op, out, id, ts) == Answer(p, op, out, id, "", EmptyNonce, "write", ts, now)

\* the answer to a commit
Committed(p, out, id, m) == Answer(p, "Commit", out, id, "", m.nonce, "queue", m, now)

\* the call of p goes on: it is left at position at with locals l
Continue(p, at, l, store) ==
    /\ tasks' = store
    /\ last' = NoResult
    /\ ret' = ret
    /\ pc' = [pc EXCEPT ![p] = at]
    /\ loc' = [loc EXCEPT ![p] = l]
    /\ spent' = SpentAfter(tasks, store, "other", "", EmptyNonce)

Route(op) == branch(fallback[op], sharded)
Flagged(op) == fallback' = [fallback EXCEPT ![op] = Route(op).flag]
Failed == Out(tasks, "error", NoTask, 0, 0)
\* nonce.Generate is called by a claim that succeeds (the supply is bounded)
CanGenerate == nextNonce <= MaxNonce
Used(out) ==
    /\ out.status = "ok" => CanGenerate
    /\ nextNonce' = IF out.status = "ok" THEN nextNonce + 1 ELSE nextNonce

\* ------------------------------------------------------------------ Init
Configs ==
    {[engine |-> "memdb", sharded |-> FALSE, fallback |-> Fallback(0)],
     [engine |-> "mongodb", sharded |-> FALSE, fallback |-> Fallback(0)],
     [engine |-> "mongodb", sharded |-> FALSE, fallback |-> Fallback(1)]}

InitEngine(c, store, obs, callers, sp) ==
    /\ engine = c.engine
    /\ sharded = c.sharded
    /\ fallback = c.fallback
    /\ tasks = store
    /\ now = Epoch
    /\ nextNonce = 1
    /\ pc = [p \in Procs |-> IF p \in callers THEN "idle" ELSE "done"]
    /\ loc = [p \in Procs |-> NoLoc]
    /\ last = NoResult
    /\ ret = [p \in Procs |-> NoRet]
    /\ observe = obs
    /\ spent = [ever |-> {}, back |-> {}, reused |-> {}]
    /\ origin = store
    /\ calls = 0
    /\ snapshotPath = sp
    /\ file = NoFile
    /\ srv = NoServer
    /\ cli = NoContext

\* an engine without a snapshot path
InitWith(c, store, obs, callers) == InitEngine(c, store, obs, callers, "")

Init == \E c \in Configs : InitWith(c, {}, FALSE, {"c1", "c2"})

\* --------------------------------------------------------------- actions
Frame == UNCHANGED <<engine, sharded, observe, origin, snapshotPath, file, srv, cli>>

\* the host clock advances
Tick ==
    /\ now < MaxTime
    /\ now' = now + 1
    /\ last' = NoResult
    /\ UNCHANGED <<engine, sharded, fallback, tasks, nextNonce, pc, loc, ret, observe, spent,
                   origin, calls, snapshotPath, file, srv, cli>>

\* one pass of the chore loop (cmd/ratus chore -> Engine.Chore); the Chore of
\* the in-memory engine writes no snapshot
Chore ==
    /\ ~observe
    /\ LET out == IF engine = "memdb" THEN memdbChore(tasks, now) ELSE mongodbChore(tasks, now)
       IN  /\ tasks' = out.store
           /\ last' = [op |-> "Chore", status |-> out.status, id |-> "", topic |-> "",
                       nonce |-> EmptyNonce, task |-> NoTask, created |-> 0, updated |-> 0,
                       body |-> NoPromise, at |-> now]
           /\ spent' = SpentAfter(tasks, out.store, "queue", "", EmptyNonce)
    /\ UNCHANGED <<engine, sharded, fallback, now, nextNonce, pc, loc, ret, observe, origin, calls,
                   snapshotPath, file, srv, cli>>

\* POST /topics/{topic}/tasks/{id}
InsertTask(p) ==
    /\ Begin(p)
    /\ \E raw \in RawTasks, path \in Paths :
          LET id == path.id
              t == normalizeTask(raw, path.id, path.topic, now)
          IN  /\ t # NoTask
              /\ Written(p, "InsertTask",
                         IF engine = "memdb" THEN memdbInsertTask(tasks, t) ELSE mongodbInsertTask(tasks, t),
                         id, <<t>>)
    /\ UNCHANGED <<fallback, now, nextNonce>> /\ Frame

\* POST /topics/{topic}/tasks with a batch of two tasks
InsertTasks(p) ==
    /\ Begin(p)
    /\ \E b \in RawBatches, topic \in Topics :
          LET ts == <<normalizeTask(b[1], "", topic, now), normalizeTask(b[2], "", topic, now)>>
          IN  Written(p, "InsertTasks",
                      IF engine = "memdb" THEN memdbInsertTasks(tasks, ts, 0) ELSE mongodbInsertTasks(tasks, ts),
                      "", ts)
    /\ UNCHANGED <<fallback, now, nextNonce>> /\ Frame

\* PUT /topics/{topic}/tasks/{id}; on MongoDB the delete-and-insert fallback
\* stops after its bulk delete
UpsertTask(p) ==
    /\ Begin(p)
    /\ \E raw \in RawTasks, path \in Paths :
          LET id == path.id
              t == normalizeTask(raw, path.id, path.topic, now)
          IN  /\ t # NoTask
              /\ IF engine = "memdb"
                 THEN Written(p, "UpsertTask", memdbUpsertTask(tasks, t), id, <<t>>)
                      /\ UNCHANGED fallback
                 ELSE /\ Flagged("UpsertTask")
                      /\ CASE Route("UpsertTask").path = "preferred" ->
                                 Written(p, "UpsertTask", upsertTaskReplace(tasks, t), id, <<t>>)
                           [] Route("UpsertTask").path = "fallback" ->
                                 Continue(p, "upsertInsert",
                                          [op |-> "UpsertTask", ts |-> <<t>>,
                                           deleted |-> DeleteBatch(tasks, <<t>>, 0).updated],
                                          DeleteBatch(tasks, <<t>>, 0).store)
                           [] OTHER -> Written(p, "UpsertTask", Failed, id, <<t>>)
    /\ UNCHANGED <<now, nextNonce>> /\ Frame

\* PUT /topics/{topic}/tasks with a batch of two tasks
UpsertTasks(p) ==
    /\ Begin(p)
    /\ \E b \in RawBatches, topic \in Topics :
          LET ts == <<normalizeTask(b[1], "", topic, now), normalizeTask(b[2], "", topic, now)>>
          IN  IF engine = "memdb"
              THEN Written(p, "UpsertTasks", memdbUpsertTasks(tasks, ts), "", ts)
                   /\ UNCHANGED fallback
              ELSE /\ Flagged("UpsertTasks")
                   /\ CASE Route("UpsertTasks").path = "preferred" ->
                              Written(p, "UpsertTasks", upsertTasksReplace(tasks, ts), "", ts)
                        [] Route("UpsertTasks").path = "fallback" ->
                              Continue(p, "upsertInsert",
                                       [op |-> "UpsertTasks", ts |-> ts,
                                        deleted |-> DeleteBatch(tasks, ts, 0).updated],
                                       DeleteBatch(tasks, ts, 0).store)
                        [] OTHER -> Written(p, "UpsertTasks", Failed, "", ts)
    /\ UNCHANGED <<now, nextNonce>> /\ Frame

\* upsertTasksDeleteAndInsert, second half: InsertTasks, then the counts
UpsertInsert(p) ==
    /\ pc[p] = "upsertInsert"
    /\ UNCHANGED calls
    /\ LET l == loc[p]
           o == mongodbInsertTasks(tasks, l.ts)
       IN  Written(p, l.op, Out(o.store, "ok", NoTask, Len(l.ts) - l.deleted, l.deleted),
                   IF l.op = "UpsertTask" THEN l.ts[1].id ELSE "", l.ts)
    /\ UNCHANGED <<fallback, now, nextNonce>> /\ Frame

\* DELETE /topics/{topic}/tasks/{id}
DeleteTask(p) ==
    /\ Begin(p)
    /\ \E id \in IDs :
          Return(p, "DeleteTask",
                 IF engine = "memdb" THEN memdbDeleteTask(tasks, id) ELSE mongodbDeleteTask(tasks, id),
                 id, EmptyNonce, "other")
    /\ UNCHANGED <<fallback, now, nextNonce>> /\ Frame

\* pollOptimistic up to its peek: not-found, or a candidate to claim
PollPeek(p, topic, pr) ==
    IF PollMatches(tasks, topic, now) = {}
    THEN Claimed(p, "Poll", Out(tasks, "notfound", NoTask, 0, 0), "", topic, pr, now)
    ELSE \E d \in PollMatches(tasks, topic, now) :
            Continue(p, "pollUpdate",
                     [op |-> "Poll", topic |-> topic, promise |-> pr, t |-> now, c |-> peek(d)], tasks)

\* POST /topics/{topic}/promises with a wildcard promise
Poll(p) ==
    /\ Begin(p)
    /\ \E topic \in Topics, raw \in RawPromises :
          LET pr == normalizePromise(raw, "", now)
          IN  /\ pr.valid
              /\ IF engine = "memdb"
                 THEN /\ \E out \in memdbPoll(tasks, topic, pr, now, Some(nextNonce)) :
                            Claimed(p, "Poll", out, "", topic, pr, now) /\ Used(out)
                      /\ UNCHANGED fallback
                 ELSE /\ Flagged("Poll")
                      /\ CASE Route("Poll").path = "preferred" ->
                                 \E out \in pollAtomic(tasks, topic, pr, now, Some(nextNonce)) :
                                    Claimed(p, "Poll", out, "", topic, pr, now) /\ Used(out)
                           [] Route("Poll").path = "fallback" ->
                                 PollPeek(p, topic, pr) /\ UNCHANGED nextNonce
                           [] OTHER -> Claimed(p, "Poll", Failed, "", topic, pr, now)
                                       /\ UNCHANGED nextNonce
    /\ UNCHANGED now /\ Frame

\* pollOptimistic, the find-and-update on the candidate; no match: retry
PollUpdate(p) ==
    /\ pc[p] = "pollUpdate"
    /\ UNCHANGED calls
    /\ LET l == loc[p]
           m == {d \in tasks : PollOptimisticFilter(d, l.topic, l.t, l.c)}
       IN  IF m = {}
           THEN Continue(p, "pollPeek", [op |-> "Poll", topic |-> l.topic, promise |-> l.promise], tasks)
                /\ UNCHANGED nextNonce
           ELSE \E d \in m :
                  LET u == mongoUpdateOpsConsume(d, l.promise, l.t, Some(nextNonce))
                      out == Out(UpdateOne(tasks, d, u), "ok", u, 0, 0)
                  IN  Claimed(p, "Poll", out, "", l.topic, l.promise, l.t) /\ Used(out)
    /\ UNCHANGED <<fallback, now>> /\ Frame

\* pollOptimistic called again after a lost race
PollRetry(p) ==
    /\ pc[p] = "pollPeek"
    /\ UNCHANGED calls
    /\ PollPeek(p, loc[p].topic, loc[p].promise)
    /\ UNCHANGED <<fallback, now, nextNonce>> /\ Frame

\* PATCH /topics/{topic}/tasks/{id}
Commit(p) ==
    /\ Begin(p)
    /\ \E id \in IDs, raw \in RawCommits :
          LET m == normalizeCommit(raw, now)
              am == {d \in tasks : CommitAtomicFilter(d, id, m)}
          IN  /\ m.valid
              /\ IF engine = "memdb"
                 THEN Committed(p, memdbCommit(tasks, id, m), id, m)
                      /\ UNCHANGED fallback
                 ELSE /\ Flagged("Commit")
                      /\ CASE Route("Commit").path = "preferred" ->
                                 IF am # {}
                                 THEN \E d \in am :
                                        Committed(p,
                                               Out(UpdateOne(tasks, d, mongoUpdateOpsCommit(d, m)), "ok",
                                                   mongoUpdateOpsCommit(d, m), 0, 0), id, m)
                                 ELSE IF m.nonce # EmptyNonce
                                 THEN Continue(p, "commitExists", [op |-> "Commit", id |-> id, m |-> m], tasks)
                                 ELSE Committed(p, Out(tasks, "notfound", NoTask, 0, 0), id, m)
                           [] Route("Commit").path = "fallback" ->
                                 IF ~exists(tasks, id)
                                 THEN Committed(p, Out(tasks, "notfound", NoTask, 0, 0), id, m)
                                 ELSE \E d \in {x \in tasks : x.id = id} :
                                        IF ~CommitOptimisticCheck(peek(d), m)
                                        THEN Committed(p, Out(tasks, "conflict", NoTask, 0, 0), id, m)
                                        ELSE Continue(p, "commitUpdate",
                                                      [op |-> "Commit", id |-> id, m |-> m, c |-> peek(d)], tasks)
                           [] OTHER -> Committed(p, Failed, id, m)
    /\ UNCHANGED <<now, nextNonce>> /\ Frame

\* commitAtomic after no match: exists decides between conflict and not-found
CommitExists(p) ==
    /\ pc[p] = "commitExists"
    /\ UNCHANGED calls
    /\ Committed(p,
              Out(tasks, IF exists(tasks, loc[p].id) THEN "conflict" ELSE "notfound", NoTask, 0, 0),
              loc[p].id, loc[p].m)
    /\ UNCHANGED <<fallback, now, nextNonce>> /\ Frame

\* commitOptimistic, the find-and-update on the peeked task; no match: conflict
CommitUpdate(p) ==
    /\ pc[p] = "commitUpdate"
    /\ UNCHANGED calls
    /\ LET l == loc[p]
           m == {d \in tasks : CommitOptimisticFilter(d, l.id, l.c)}
       IN  IF m = {}
           THEN Committed(p, Out(tasks, "conflict", NoTask, 0, 0), l.id, l.m)
           ELSE \E d \in m :
                  Committed(p,
                         Out(UpdateOne(tasks, d, mongoUpdateOpsCommit(d, l.m)), "ok",
                             mongoUpdateOpsCommit(d, l.m), 0, 0), l.id, l.m)
    /\ UNCHANGED <<fallback, now, nextNonce>> /\ Frame

\* POST /topics/{topic}/tasks/{id}/promise: the claim of a pending task by id
InsertPromise(p) ==
    /\ Begin(p)
    /\ \E id \in IDs, raw \in RawPromises :
          LET pr == normalizePromise(raw, id, now)
              am == {d \in tasks : InsertPromiseAtomicFilter(d, pr)}
          IN  /\ pr.valid
              /\ IF engine = "memdb"
                 THEN LET out == memdbInsertPromise(tasks, pr, now, Some(nextNonce))
                      IN  Claimed(p, "InsertPromise", out, id, "", pr, now) /\ Used(out)
                          /\ UNCHANGED fallback
                 ELSE /\ Flagged("InsertPromise")
                      /\ CASE Route("InsertPromise").path = "preferred" ->
                                 IF am # {}
                                 THEN \E d \in am :
                                        LET u == mongoUpdateOpsConsume(d, pr, now, Some(nextNonce))
                                            out == Out(UpdateOne(tasks, d, u), "ok", u, 0, 0)
                                        IN  Claimed(p, "InsertPromise", out, id, "", pr, now) /\ Used(out)
                                 ELSE Continue(p, "insertPromiseExists",
                                               [op |-> "InsertPromise", id |-> id, promise |-> pr], tasks)
                                      /\ UNCHANGED nextNonce
                           [] Route("InsertPromise").path = "fallback" ->
                                 /\ UNCHANGED nextNonce
                                 /\ IF ~exists(tasks, id)
                                    THEN Claimed(p, "InsertPromise", Out(tasks, "notfound", NoTask, 0, 0),
                                                 id, "", pr, now)
                                    ELSE \E d \in {x \in tasks : x.id = id} :
                                           IF d.state # TaskStatePending
                                           THEN Claimed(p, "InsertPromise", Out(tasks, "conflict", NoTask, 0, 0),
                                                        id, "", pr, now)
                                           ELSE Continue(p, "insertPromiseUpdate",
                                                         [op |-> "InsertPromise", id |-> id, promise |-> pr,
                                                          c |-> peek(d)], tasks)
                           [] OTHER -> Claimed(p, "InsertPromise", Failed, id, "", pr, now)
                                       /\ UNCHANGED nextNonce
    /\ UNCHANGED now /\ Frame

\* insertPromiseAtomic after no match: exists decides between conflict and not-found
InsertPromiseExists(p) ==
    /\ pc[p] = "insertPromiseExists"
    /\ UNCHANGED calls
    /\ Claimed(p, "InsertPromise",
               Out(tasks, IF exists(tasks, loc[p].id) THEN "conflict" ELSE "notfound", NoTask, 0, 0),
               loc[p].id, "", loc[p].promise, now)
    /\ UNCHANGED <<fallback, now, nextNonce>> /\ Frame

\* insertPromiseOptimistic, the find-and-update on the peeked task; no match: conflict
InsertPromiseUpdate(p) ==
    /\ pc[p] = "insertPromiseUpdate"
    /\ UNCHANGED calls
    /\ LET l == loc[p]
           m == {d \in tasks : InsertPromiseOptimisticFilter(d, l.promise, l.c)}
       IN  IF m = {}
           THEN Claimed(p, "InsertPromise", Out(tasks, "conflict", NoTask, 0, 0), l.id, "", l.promise, now)
                /\ UNCHANGED nextNonce
           ELSE \E d \in m :
                  LET u == mongoUpdateOpsConsume(d, l.promise, now, Some(nextNonce))
                      out == Out(UpdateOne(tasks, d, u), "ok", u, 0, 0)
                  IN  Claimed(p, "InsertPromise", out, l.id, "", l.promise, now) /\ Used(out)
    /\ UNCHANGED <<fallback, now>> /\ Frame

\* upsertPromiseOptimistic up to its peek
UpsertPromisePeek(p, id, pr) ==
    IF ~exists(tasks, id)
    THEN Claimed(p, "UpsertPromise", Out(tasks, "notfound", NoTask, 0, 0), id, "", pr, now)
    ELSE \E d \in {x \in tasks : x.id = id} :
            Continue(p, "upsertPromiseUpdate",
                     [op |-> "UpsertPromise", id |-> id, promise |-> pr, c |-> peek(d)], tasks)

\* PUT /topics/{topic}/tasks/{id}/promise: the claim of a task in any state
UpsertPromise(p) ==
    /\ Begin(p)
    /\ \E id \in IDs, raw \in RawPromises :
          LET pr == normalizePromise(raw, id, now)
          IN  /\ pr.valid
              /\ IF engine = "memdb"
                 THEN LET out == memdbUpsertPromise(tasks, pr, now, Some(nextNonce))
                      IN  Claimed(p, "UpsertPromise", out, id, "", pr, now) /\ Used(out)
                          /\ UNCHANGED fallback
                 ELSE /\ Flagged("UpsertPromise")
                      /\ CASE Route("UpsertPromise").path = "preferred" ->
                                 LET out == upsertPromiseAtomic(tasks, pr, now, Some(nextNonce))
                                 IN  Claimed(p, "UpsertPromise", out, id, "", pr, now) /\ Used(out)
                           [] Route("UpsertPromise").path = "fallback" ->
                                 UpsertPromisePeek(p, id, pr) /\ UNCHANGED nextNonce
                           [] OTHER -> Claimed(p, "UpsertPromise", Failed, id, "", pr, now)
                                       /\ UNCHANGED nextNonce
    /\ UNCHANGED now /\ Frame

\* upsertPromiseOptimistic, the find-and-update on the peeked task; no match: retry
UpsertPromiseUpdate(p) ==
    /\ pc[p] = "upsertPromiseUpdate"
    /\ UNCHANGED calls
    /\ LET l == loc[p]
           m == {d \in tasks : UpsertPromiseOptimisticFilter(d, l.promise, l.c)}
       IN  IF m = {}
           THEN Continue(p, "upsertPromisePeek",
                         [op |-> "UpsertPromise", id |-> l.id, promise |-> l.promise], tasks)
                /\ UNCHANGED nextNonce
           ELSE \E d \in m :
                  LET u == mongoUpdateOpsConsume(d, l.promise, now, Some(nextNonce))
                      out == Out(UpdateOne(tasks, d, u), "ok", u, 0, 0)
                  IN  Claimed(p, "UpsertPromise", out, l.id, "", l.promise, now) /\ Used(out)
    /\ UNCHANGED <<fallback, now>> /\ Frame

\* upsertPromiseOptimistic called again after a lost race
UpsertPromiseRetry(p) ==
    /\ pc[p] = "upsertPromisePeek"
    /\ UNCHANGED calls
    /\ UpsertPromisePeek(p, loc[p].id, loc[p].promise)
    /\ UNCHANGED <<fallback, now, nextNonce>> /\ Frame

\* DELETE /topics/{topic}/tasks/{id}/promise
DeletePromise(p) ==
    /\ Begin(p)
    /\ \E id \in IDs :
          Return(p, "DeletePromise",
                 IF engine = "memdb" THEN memdbDeletePromise(tasks, id) ELSE mongodbDeletePromise(tasks, id),
                 id, EmptyNonce, "queue")
    /\ UNCHANGED <<fallback, now, nextNonce>> /\ Frame

\* DELETE /topics/{topic}/promises
DeletePromises(p) ==
    /\ Begin(p)
    /\ \E topic \in Topics :
          Respond(p, "DeletePromises",
                  IF engine = "memdb" THEN memdbDeletePromises(tasks, topic)
                  ELSE mongodbDeletePromises(tasks, topic),
                  "", topic, EmptyNonce, "queue")
    /\ UNCHANGED <<fallback, now, nextNonce>> /\ Frame

\* GET /topics/{topic}/tasks/{id}/promise: the store is only read, the promise
\* found is carried in the body of the answer
GetPromise(p) ==
    /\ Begin(p)
    /\ \E id \in IDs :
          LET g == IF engine = "memdb" THEN memdbGetPromise(tasks, id) ELSE mongodbGetPromise(tasks, id)
          IN  Answer(p, "GetPromise", Out(tasks, g.status, NoTask, 0, 0), id, "", EmptyNonce, "other",
                     g.promise, now)
    /\ UNCHANGED <<fallback, now, nextNonce>> /\ Frame

\* Engine.Close of the in-memory engine: a snapshot is written if a path is set
Close ==
    /\ engine = "memdb"
    /\ ~observe
    /\ \A p \in Procs : pc[p] \in {"idle", "done"}
    /\ LET s == IF snapshotPath # "" THEN save(tasks, file) ELSE [status |-> "ok", file |-> file]
       IN  /\ file' = s.file
           /\ last' = [op |-> "Close", status |-> s.status, id |-> "", topic |-> "",
                       nonce |-> EmptyNonce, task |-> NoTask, created |-> 0, updated |-> 0,
                       body |-> NoPromise, at |-> now]
    /\ UNCHANGED <<engine, sharded, fallback, tasks, now, nextNonce, pc, loc, ret, observe, spent,
                   origin, calls, snapshotPath, srv, cli>>

\* memdb.New and Engine.Open after the server has stopped: a new database,
\* filled from the snapshot file if a path is set
Open ==
    /\ engine = "memdb"
    /\ ~observe
    /\ \A p \in Procs : pc[p] \in {"idle", "done"}
    /\ tasks' = IF snapshotPath # "" THEN load(file) ELSE {}
    /\ last' = [op |-> "Open", status |-> "ok", id |-> "", topic |-> "",
                nonce |-> EmptyNonce, task |-> NoTask, created |-> 0, updated |-> 0,
                body |-> NoPromise, at |-> now]
    /\ spent' = SpentAfter(tasks, tasks', "other", "", EmptyNonce)
    /\ UNCHANGED <<engine, sharded, fallback, now, nextNonce, pc, loc, ret, observe, origin, calls,
                   snapshotPath, file, srv, cli>>

\* ------------------------------------------------------- cmd/ratus: run
\* requests the HTTP server may be handling, and the settings of
\* ServerConfig.Port and ChoreConfig.Interval
Requests == {"r1", "r2"}
Ports == {0, 80}
Intervals == {0, 1}
MaxPasses == 2

\* the values (port 0: serve returns at once; interval 0: chore returns at once)
serveStart(port) == IF port <= 0 THEN "returned" ELSE "running"
choreStart(interval) == IF interval <= 0 THEN "returned" ELSE "waiting"

\* variant of choreAfterPass: a pass that returned an error ends the loop
choreAfterPassStop(failed) == IF failed THEN "cancelled" ELSE "waiting"

\* chore: after g.Chore returns, its error is logged and the loop selects again
choreAfterPass(failed) == "waiting"

ServerFrame == UNCHANGED <<engine, sharded, fallback, tasks, now, nextNonce, pc, loc, ret, observe,
                           spent, origin, calls, snapshotPath, file, cli>>

\* run: the engine is opened, then serve and chore are started in the error group
Run ==
    /\ ~srv.started
    /\ \E port \in Ports, interval \in Intervals :
          srv' = [srv EXCEPT !.started = TRUE, !.port = port, !.interval = interval,
                             !.server = IF port <= 0 THEN "none" ELSE "listening",
                             !.serve = serveStart(port),
                             !.chore = choreStart(interval)]
    /\ last' = NoResult
    /\ ServerFrame

\* SIGINT or SIGTERM: signal.Notify delivers it to the channel of serve and to
\* the channel of chore, whichever of them have registered one
Signal ==
    /\ srv.started /\ ~srv.signalled /\ ~srv.exited
    /\ srv' = [srv EXCEPT !.signalled = TRUE,
                          !.serveCh = (srv.port > 0),
                          !.choreCh = (srv.interval > 0)]
    /\ last' = NoResult
    /\ ServerFrame

\* the listener accepts a connection and a handler goroutine starts
Accept(r) ==
    /\ srv.server = "listening" /\ ~srv.exited
    /\ r \notin srv.inflight
    /\ srv' = [srv EXCEPT !.inflight = srv.inflight \cup {r}]
    /\ last' = NoResult
    /\ ServerFrame

\* a handler calls the engine and writes its response
Handle(r) ==
    /\ r \in srv.inflight /\ ~srv.exited
    /\ srv' = [srv EXCEPT !.inflight = srv.inflight \ {r},
                          !.onClosed = srv.onClosed \/ srv.closed]
    /\ last' = NoResult
    /\ ServerFrame

\* ListenAndServe fails (for instance on the address): serve returns the
\* error and the error group cancels the context
ListenFail ==
    /\ srv.serve = "running" /\ srv.server = "listening" /\ srv.inflight = {}
    /\ srv' = [srv EXCEPT !.server = "closed", !.serve = "failed", !.ctxDone = TRUE]
    /\ last' = NoResult
    /\ ServerFrame

\* serve's goroutine: on the signal it calls s.Shutdown, which closes the
\* listeners and then waits for the handlers; on ctx.Done it calls s.Close
Shutdown ==
    /\ srv.server = "listening" /\ ~srv.exited
    /\ \/ /\ srv.serveCh
          /\ srv' = [srv EXCEPT !.serveCh = FALSE, !.server = "shutdown"]
       \/ /\ srv.ctxDone
          /\ srv' = [srv EXCEPT !.server = "closed"]
    /\ last' = NoResult
    /\ ServerFrame

\* s.Shutdown returns once no handler is left
Drained ==
    /\ srv.server = "shutdown" /\ srv.inflight = {} /\ ~srv.exited
    /\ srv' = [srv EXCEPT !.server = "drained"]
    /\ last' = NoResult
    /\ ServerFrame

\* ListenAndServe returns ErrServerClosed as soon as Shutdown or Close has been
\* called, and serve returns nil
ServeReturn ==
    /\ srv.serve = "running" /\ srv.server \in {"shutdown", "drained", "closed"}
    /\ srv' = [srv EXCEPT !.serve = "returned"]
    /\ last' = NoResult
    /\ ServerFrame

\* chore: the ticker fires and the loop starts a pass
ChoreTick ==
    /\ srv.chore = "waiting" /\ ~srv.exited
    /\ srv.passes < MaxPasses
    /\ srv' = [srv EXCEPT !.chore = "pass"]
    /\ last' = NoResult
    /\ ServerFrame

\* chore: g.Chore runs and returns, with an error or without
ChorePass ==
    /\ srv.chore = "pass" /\ ~srv.exited
    /\ \E failed \in BOOLEAN :
          LET out == IF engine = "memdb" THEN memdbChore(tasks, now) ELSE mongodbChore(tasks, now)
          IN  /\ tasks' = IF failed THEN tasks ELSE out.store
              /\ last' = [op |-> "Chore", status |-> IF failed THEN "error" ELSE out.status,
                          id |-> "", topic |-> "", nonce |-> EmptyNonce, task |-> NoTask,
                          created |-> 0, updated |-> 0, body |-> NoPromise, at |-> now]
              /\ spent' = SpentAfter(tasks, tasks', "queue", "", EmptyNonce)
              /\ srv' = [srv EXCEPT !.chore = choreAfterPass(failed),
                                    !.passes = srv.passes + 1,
                                    !.failedPass = srv.failedPass \/ failed,
                                    !.onClosed = srv.onClosed \/ srv.closed]
    /\ UNCHANGED <<engine, sharded, fallback, now, nextNonce, pc, loc, ret, observe, origin, calls,
                   snapshotPath, file, cli>>

\* chore: the select receives the signal (return nil) or ctx.Done (return ctx.Err())
ChoreStop ==
    /\ srv.chore = "waiting"
    /\ \/ /\ srv.choreCh
          /\ srv' = [srv EXCEPT !.choreCh = FALSE, !.chore = "returned"]
       \/ /\ srv.ctxDone
          /\ srv' = [srv EXCEPT !.chore = "cancelled", !.ctxDone = TRUE]
    /\ last' = NoResult
    /\ ServerFrame

\* run: e.Wait returns when serve and chore have returned, and the deferred
\* g.Close runs (the in-memory engine writes its snapshot)
WaitClose ==
    /\ srv.serve \in {"returned", "failed"}
    /\ srv.chore \in {"returned", "cancelled"}
    /\ ~srv.closed
    /\ srv' = [srv EXCEPT !.closed = TRUE, !.ctxDone = TRUE]
    /\ file' = IF engine = "memdb" /\ snapshotPath # "" THEN save(tasks, file).file ELSE file
    /\ last' = NoResult
    /\ UNCHANGED <<engine, sharded, fallback, tasks, now, nextNonce, pc, loc, ret, observe,
                   spent, origin, calls, snapshotPath, cli>>

\* main returns and the process ends, with whatever handlers are still running
Exit ==
    /\ srv.closed /\ ~srv.exited
    /\ srv' = [srv EXCEPT !.exited = TRUE]
    /\ last' = NoResult
    /\ ServerFrame

\* ----------------------------------------------------------------- topics
\* the ids of the topic listing in the order of the id index, and the largest
\* limit and offset asked for
ListIds == <<"1", "2", "3">>
MaxLimit == 3

\* memdb ListTopics, the scan of the id index: a topic is appended whenever it
\* differs from the topic of the record before, until offset+limit are collected
RECURSIVE memdbListTopicsScan(_, _, _, _, _)
memdbListTopicsScan(store, i, p, v, want) ==
    IF i > Len(ListIds) THEN v
    ELSE LET r == {t \in store : t.id = ListIds[i]}
         IN  IF r = {} THEN memdbListTopicsScan(store, i + 1, p, v, want)
             ELSE LET t == CHOOSE x \in r : TRUE
                      w == IF t.topic # p THEN Append(v, t.topic) ELSE v
                  IN  IF Len(w) >= want THEN w
                      ELSE memdbListTopicsScan(store, i + 1, t.topic, w, want)

\* memdb ListTopics: the scan, sliced from the offset
memdbListTopics(store, limit, offset) ==
    LET v == memdbListTopicsScan(store, 1, "", <<>>, offset + limit)
        n == Len(v)
    IN  IF n < offset THEN <<>> ELSE SubSeq(v, offset + 1, n)

\* the topics of the store in the order of the topic index
RECURSIVE topicIndex(_, _)
topicIndex(store, i) ==
    IF i > Len(TopicOrder) THEN <<>>
    ELSE (IF \E t \in store : t.topic = TopicOrder[i] THEN <<TopicOrder[i]>> ELSE <<>>)
         \o topicIndex(store, i + 1)

\* the window of limit entries after the first offset entries
Window(v, limit, offset) ==
    SubSeq(v, offset + 1, IF Len(v) < offset + limit THEN Len(v) ELSE offset + limit)

\* memdb ListTopics as the scan of the topic index: the records of a topic
\* are adjacent, the first offset topics are skipped, limit topics collected
memdbListTopicsByTopic(store, limit, offset) == Window(topicIndex(store, 1), limit, offset)

\* mongodb ListTopics: $group by topic, $skip offset, $limit limit
mongodbListTopics(store, limit, offset) == Window(topicIndex(store, 1), limit, offset)

\* GET /topics
ListTopics ==
    /\ ~observe
    /\ \E limit \in 1..MaxLimit, offset \in 0..MaxLimit :
          last' = [op |-> "ListTopics", status |-> "ok", id |-> "", topic |-> "",
                   nonce |-> EmptyNonce, task |-> NoTask, created |-> 0, updated |-> 0,
                   body |-> IF engine = "memdb" THEN memdbListTopics(tasks, limit, offset)
                            ELSE mongodbListTopics(tasks, limit, offset),
                   at |-> now, limit |-> limit, offset |-> offset]
    /\ UNCHANGED <<engine, sharded, fallback, tasks, now, nextNonce, pc, loc, ret, observe, spent,
                   origin, calls, snapshotPath, file, srv, cli>>

\* ------------------------------------------------------------ controller
\* ratus.NewError: the HTTP status code of an engine error
NewErrorCode(err) ==
    CASE err = "notfound" -> 404
      [] err = "conflict" -> 409
      [] OTHER -> 500

\* PostPromise: the error sent for the result of Engine.InsertPromise, as the
\* parts of its message (the text of the wrapped error, then what is added)
PostPromiseError(err) ==
    IF err = "conflict" THEN <<"conflict", "a promise for the same task already exists">>
    ELSE <<err>>

\* PostPromise and send: the response to POST /topics/{topic}/promises/{id}
PostPromise(status) ==
    IF status = "ok" THEN [code |-> 200, message |-> <<>>]
    ELSE [code |-> NewErrorCode(status), message |-> PostPromiseError(status)]

\* ---------------------------------------------------------------- aliasing
\* the fields of ratus.Task, and those that are pointers (*time.Time) or an
\* interface value that may hold a map or a slice
TaskFields == {"id", "topic", "state", "nonce", "producer", "consumer", "produced", "scheduled",
               "consumed", "deadline", "payload"}
TimeFields == {"produced", "scheduled", "consumed", "deadline"}
PointerFields == TimeFields \cup {"payload"}

\* variant of clone: the pointer itself is returned
cloneAlias(fields) == [own |-> {}, shared |-> fields \cap PointerFields]

\* clone (u := *v; return &u): the copy has its own storage for every field,
\* and shares with the original what its pointer fields point to
clone(fields) == [own |-> fields, shared |-> fields \cap PointerFields]

\* the calls after which the caller and the store hold copies of one task made
\* by clone: the task passed to an insert or upsert, the task a claim or a
\* commit returned
HandingOps == {"InsertTask", "UpsertTask", "Poll", "Commit"}

\* a caller of the in-memory engine changes the task it passed to, or got from,
\* the call that has just returned: it assigns a field of its struct, or writes
\* through one of its pointers (a time value, or a payload that is a map or a
\* slice)
Mutate ==
    /\ engine = "memdb"
    /\ last.op \in HandingOps
    /\ last.status = "ok"
    /\ \E t \in tasks, f \in TaskFields \ {"id"}, kind \in {"assign", "through"} :
          LET hit == IF kind = "assign" THEN f \notin clone(TaskFields).own
                     ELSE f \in clone(TaskFields).shared
              u == IF f \in TimeFields THEN [t EXCEPT ![f] = Some(MaxTime + 1)]
                   ELSE IF f = "payload" THEN [t EXCEPT ![f] = Some("[1,2]")]
                   ELSE IF f = "state" THEN [t EXCEPT ![f] = TaskStateArchived]
                   ELSE [t EXCEPT ![f] = "x"]
          IN  /\ t.id = (IF last.task # NoTask THEN last.task.id ELSE last.id)
              /\ kind = "through"
                 => /\ f \in PointerFields
                    /\ t[f] # Nil
                    /\ f = "payload" => GoType(Val(t[f])) \in {"[]interface {}", "map[string]interface {}"}
              /\ tasks' = IF hit THEN TxnInsert(tasks, u) ELSE tasks
              /\ last' = [op |-> "Mutate", status |-> "ok", id |-> t.id, topic |-> "",
                          nonce |-> EmptyNonce, task |-> NoTask, created |-> 0, updated |-> 0,
                          body |-> NoPromise, at |-> now, kind |-> kind, field |-> f]
              /\ spent' = SpentAfter(tasks, tasks', "other", "", EmptyNonce)
    /\ UNCHANGED <<engine, sharded, fallback, now, nextNonce, pc, loc, ret, observe, origin, calls,
                   snapshotPath, file, srv, cli>>

\* ------------------------------------------------------- client: Context
\* the Commit calls a handler makes on its Context before it returns
MaxCommits == 2

\* variant of the committed check: every Commit call sends a request
ContextSendsAlways(committed) == TRUE

\* Context.Commit: a request is sent unless a commit has been made
ContextSends(committed) == ~committed

ClientFrame == UNCHANGED <<engine, sharded, fallback, now, pc, loc, ret, observe, origin, calls,
                           snapshotPath, file, srv>>

\* Subscribe, case <-r.C: Client.Poll claims a task and wraps it in a Context
\* whose commit carries the nonce of the task; on an error it polls again later
ClientPoll ==
    /\ engine = "memdb"
    /\ cli.phase = "none"
    /\ \E topic \in Topics, raw \in RawPromises :
          LET pr == normalizePromise(raw, "", now)
          IN  /\ pr.valid
              /\ \E out \in memdbPoll(tasks, topic, pr, now, Some(nextNonce)) :
                    /\ Used(out)
                    /\ tasks' = out.store
                    /\ last' = [op |-> "ClientPoll", status |-> out.status, id |-> "", topic |-> topic,
                                nonce |-> EmptyNonce, task |-> out.task, created |-> 0,
                                updated |-> 0, body |-> pr, at |-> now]
                    /\ spent' = SpentAfter(tasks, out.store, "queue", "", EmptyNonce)
                    /\ cli' = IF out.status = "ok"
                              THEN [NoContext EXCEPT !.phase = "handler", !.id = out.task.id,
                                                     !.nonce = out.task.nonce]
                              ELSE NoContext
    /\ ClientFrame

\* Context.Commit, called by the handler or by Subscribe after the handler has
\* returned: PatchTask is sent unless the Context is committed; the request may
\* fail before it reaches the server, or be answered with an error
ContextCommit ==
    /\ engine = "memdb"
    /\ \/ cli.phase = "handler" /\ cli.calls < MaxCommits
       \/ cli.phase = "auto"
    /\ LET m == normalizeCommit(RawCommit(cli.nonce, "", Some(TaskStateCompleted), Nil, Nil), now)
           next == IF cli.phase = "auto" THEN "none" ELSE "handler"
       IN  IF ~ContextSends(cli.committed)
           THEN /\ tasks' = tasks
                /\ last' = [op |-> "ContextCommit", status |-> "nil", id |-> cli.id, topic |-> "",
                            nonce |-> cli.nonce, task |-> NoTask, created |-> 0, updated |-> 0,
                            body |-> m, at |-> now]
                /\ spent' = spent
                /\ cli' = [cli EXCEPT !.phase = next, !.calls = cli.calls + 1]
           ELSE \E lost \in BOOLEAN :
                   LET out == IF lost THEN Failed ELSE memdbCommit(tasks, cli.id, m)
                   IN  /\ tasks' = out.store
                       /\ last' = [op |-> "ContextCommit",
                                   status |-> IF out.status = "ok" THEN "nil" ELSE out.status,
                                   id |-> cli.id, topic |-> "", nonce |-> cli.nonce,
                                   task |-> out.task, created |-> 0, updated |-> 0,
                                   body |-> m, at |-> now]
                       /\ spent' = SpentAfter(tasks, out.store, "queue", cli.id, cli.nonce)
                       /\ cli' = [cli EXCEPT !.phase = next, !.calls = cli.calls + 1,
                                             !.sent = cli.sent + 1,
                                             !.applied = cli.applied + (IF out.status = "ok" THEN 1 ELSE 0),
                                             !.committed = (out.status = "ok")]
    /\ UNCHANGED nextNonce
    /\ ClientFrame

\* Subscribe, case x := <-xc: the handler returns and the automatic commit is due
HandlerReturn ==
    /\ cli.phase = "handler"
    /\ cli' = [cli EXCEPT !.phase = "auto"]
    /\ last' = NoResult
    /\ UNCHANGED <<tasks, nextNonce, spent>>
    /\ ClientFrame

\* ------------------------------------------------------------------ Spec
Next ==
    \/ Tick
    \/ Chore
    \/ \E p \in Procs : InsertTask(p)
    \/ \E p \in Procs : InsertTasks(p)
    \/ \E p \in Procs : UpsertTask(p)
    \/ \E p \in Procs : UpsertTasks(p)
    \/ \E p \in Procs : UpsertInsert(p)
    \/ \E p \in Procs : DeleteTask(p)
    \/ \E p \in Procs : Poll(p)
    \/ \E p \in Procs : PollUpdate(p)
    \/ \E p \in Procs : PollRetry(p)
    \/ \E p \in Procs : Commit(p)
    \/ \E p \in Procs : CommitExists(p)
    \/ \E p \in Procs : CommitUpdate(p)
    \/ \E p \in Procs : InsertPromise(p)
    \/ \E p \in Procs : InsertPromiseExists(p)
    \/ \E p \in Procs : InsertPromiseUpdate(p)
    \/ \E p \in Procs : UpsertPromise(p)
    \/ \E p \in Procs : UpsertPromiseUpdate(p)
    \/ \E p \in Procs : UpsertPromiseRetry(p)
    \/ \E p \in Procs : DeletePromise(p)
    \/ \E p \in Procs : DeletePromises(p)

Spec == Init /\ [][Next]_vars

\* ------------------------------------------------------- race scenarios
\* what InsertTask stores at the epoch for a pending task of the given nonce
Stored(id, topic, nonce) ==
    normalizeTask(RawTask(TaskStatePending, nonce, Nil, Nil, Nil), id, topic, Epoch)

\* the stores of the concurrent poll test: pending tasks due at the epoch
PollStores ==
    { {Stored("1", TopicOrder[1], EmptyNonce)},
      {Stored("1", TopicOrder[1], EmptyNonce), Stored("2", TopicOrder[1], EmptyNonce)},
      {Stored("1", TopicOrder[1], EmptyNonce), Stored("2", TopicOrder[2], EmptyNonce)},
      {Stored("2", TopicOrder[2], EmptyNonce)} }

\* the stores of the concurrent commit test: a task inserted with a nonce
CommitStores ==
    { {Stored("1", TopicOrder[1], ClientNonce)},
      {Stored("1", TopicOrder[1], ClientNonce), Stored("2", TopicOrder[2], EmptyNonce)} }

\* every caller polls once, all at the same time
InitPollRace == \E c \in Configs, store \in PollStores : InitWith(c, store, TRUE, Procs)

NextPollRace ==
    \/ \E p \in Procs : Poll(p)
    \/ \E p \in Procs : PollUpdate(p)
    \/ \E p \in Procs : PollRetry(p)

SpecPollRace == InitPollRace /\ [][NextPollRace]_vars

\* every caller commits once, all at the same time
InitCommitRace == \E c \in Configs, store \in CommitStores : InitWith(c, store, TRUE, Procs)

NextCommitRace ==
    \/ \E p \in Procs : Commit(p)
    \/ \E p \in Procs : CommitExists(p)
    \/ \E p \in Procs : CommitUpdate(p)

SpecCommitRace == InitCommitRace /\ [][NextCommitRace]_vars

\* a store that holds a client-supplied nonce, and the calls that invalidate,
\* store and commit nonces
InitNonce ==
    \E c \in Configs : InitWith(c, {Stored("1", TopicOrder[1], ClientNonce)}, FALSE, {"c1", "c2"})

NextNonce ==
    \/ Tick
    \/ Chore
    \/ \E p \in Procs : UpsertTask(p)
    \/ \E p \in Procs : UpsertInsert(p)
    \/ \E p \in Procs : Commit(p)
    \/ \E p \in Procs : CommitExists(p)
    \/ \E p \in Procs : CommitUpdate(p)
    \/ \E p \in Procs : InsertPromise(p)
    \/ \E p \in Procs : InsertPromiseExists(p)
    \/ \E p \in Procs : InsertPromiseUpdate(p)
    \/ \E p \in Procs : DeletePromise(p)

SpecNonce == InitNonce /\ [][NextNonce]_vars

\* consumers that claim and never commit, the clock and the chore loop; the
\* clock keeps moving and the chore loop keeps running (cmd/ratus chore ticker)
InitLive == \E c \in Configs, store \in PollStores : InitWith(c, store, FALSE, {"c1", "c2"})

NextLive ==
    \/ Tick
    \/ Chore
    \/ \E p \in Procs : Poll(p)
    \/ \E p \in Procs : PollUpdate(p)
    \/ \E p \in Procs : PollRetry(p)

SpecLive == InitLive /\ [][NextLive]_vars /\ WF_vars(Tick) /\ WF_vars(Chore)

\* ------------------------------------------------------------ properties
AllDone == \A p \in Procs : pc[p] = "done"

\* the tasks of a topic a poll at time n may claim
Eligible(store, topic, n) ==
    {t \in store : /\ t.state = TaskStatePending
                   /\ t.topic = topic
                   /\ t.scheduled # Nil
                   /\ Val(t.scheduled) <= n}

Claims == {"Poll", "InsertPromise", "UpsertPromise"}

\* C1: when the concurrent polls have all returned, no two successful polls
\* hold the same task, and for every topic with k eligible tasks at the start
\* and more than k polls, exactly k polls succeeded and the others returned
\* not-found.
C1_PollRace ==
    AllDone =>
        /\ \A p \in Procs, q \in Procs :
              (p # q /\ ret[p].status = "ok" /\ ret[q].status = "ok")
                  => ret[p].task.id # ret[q].task.id
        /\ \A topic \in Topics :
              LET polls == {p \in Procs : ret[p].op = "Poll" /\ ret[p].topic = topic}
                  won == {p \in polls : ret[p].status = "ok"}
                  k == Cardinality(Eligible(origin, topic, now))
              IN  Cardinality(polls) > k =>
                      /\ Cardinality(won) = k
                      /\ \A p \in polls \ won : ret[p].status = "notfound"

\* C2: a Commit with a non-empty nonce that succeeds finds that nonce stored on
\* the task at the step that applies the update, and a Commit that answers while
\* the task holds another nonce answers conflict.
C2_CommitNonce ==
    [][(last'.op = "Commit" /\ last'.nonce # EmptyNonce) =>
          /\ last'.status = "ok" =>
                \E t \in tasks : t.id = last'.id /\ t.nonce = last'.nonce
          /\ (\E t \in tasks : t.id = last'.id /\ t.nonce # last'.nonce) =>
                last'.status = "conflict"]_vars

\* a commit carrying a generated nonce has succeeded
C2_Witness ==
    /\ last.op = "Commit"
    /\ last.status = "ok"
    /\ last.nonce # EmptyNonce
    /\ last.nonce # ClientNonce

\* the callers that committed the task id with the nonce n
Committers(id, n) ==
    {p \in Procs : ret[p].op = "Commit" /\ ret[p].id = id /\ ret[p].nonce = n}

\* C3: when several concurrent Commits carried the nonce the task held and no
\* other call touched the task, exactly one of them succeeded, the others
\* returned conflict, and the store holds the task the winner wrote.
C3_CommitRace ==
    AllDone =>
        \A id \in IDs :
            LET s == Committers(id, ClientNonce)
            IN  (/\ Cardinality(s) >= 2
                 /\ \E t \in origin : t.id = id /\ t.nonce = ClientNonce
                 /\ \A q \in Procs \ s : ret[q].id # id)
                => \E w \in s :
                      /\ ret[w].status = "ok"
                      /\ ret[w].task \in tasks
                      /\ \A q \in s \ {w} : ret[q].status = "conflict"

\* three commits with the same nonce have raced on the optimistic path
C3_Witness ==
    /\ AllDone
    /\ engine = "mongodb"
    /\ fallback["Commit"] = 1
    /\ Committers("1", ClientNonce) = Procs
    /\ \E w \in Procs : ret[w].status = "ok"

\* C4: no Commit carrying a non-empty nonce succeeds once that nonce of the
\* task has been invalidated (by a commit, a chore recovery, a promise deletion
\* or a later claim).
C4_SingleUse ==
    [][(last'.op = "Commit" /\ last'.status = "ok" /\ last'.nonce # EmptyNonce) =>
          <<last'.id, last'.nonce>> \notin spent.ever]_vars

\* C4, amended: a Commit carrying an invalidated nonce succeeds only when an
\* insert or upsert has stored that nonce on the task again since.
C4_SingleUseUnlessStoredAgain ==
    [][(last'.op = "Commit" /\ last'.status = "ok" /\ last'.nonce # EmptyNonce
            /\ <<last'.id, last'.nonce>> \in spent.ever) =>
          <<last'.id, last'.nonce>> \in spent.back]_vars

\* a commit has succeeded with a nonce that was invalidated and stored again
C4_Witness == last.op = "Commit" /\ last.status = "ok" /\ <<last.id, last.nonce>> \in spent.reused

\* C5: every stored task has a non-empty nonce if and only if it is active.
C5_NonceIffActive ==
    \A t \in tasks : (t.nonce # EmptyNonce) <=> (t.state = TaskStateActive)

\* C5, amended: a task written by a claim is active with a non-empty nonce, a
\* task written by a promise deletion or a chore pass is pending with an empty
\* nonce, and a task written by a commit has an empty nonce whatever its state.
C5_NonceByOperation ==
    [][\A u \in tasks' \ tasks :
          /\ last'.op \in Claims => (u.state = TaskStateActive /\ u.nonce # EmptyNonce)
          /\ last'.op \in {"DeletePromise", "DeletePromises", "Chore"} =>
                (u.state = TaskStatePending /\ u.nonce = EmptyNonce)
          /\ last'.op = "Commit" => u.nonce = EmptyNonce]_vars

\* a commit has left a task active without a nonce
C5_Witness ==
    /\ last.op = "Commit"
    /\ last.status = "ok"
    /\ last.task \in tasks
    /\ last.task.state = TaskStateActive
    /\ last.task.nonce = EmptyNonce

BatchIds == {i \in IDs : \A b \in RawBatches : \E k \in 1..Len(b) : b[k].id = i}

\* no call is in progress
Quiet == \A p \in Procs : pc[p] \in {"idle", "done"}

\* C7: the store never holds two tasks with one id, and when the last of any
\* number of concurrent calls to return is an InsertTask, UpsertTask,
\* InsertTasks or UpsertTasks, the store holds exactly one task with the id
\* that call wrote.
C7_OneTaskPerId ==
    /\ \A t \in tasks, u \in tasks : t.id = u.id => t = u
    /\ (Quiet /\ last.op \in {"InsertTask", "UpsertTask"} /\ last.status \in {"ok", "conflict"}) =>
          Cardinality({t \in tasks : t.id = last.id}) = 1
    /\ (Quiet /\ last.op \in {"InsertTasks", "UpsertTasks"} /\ last.status = "ok") =>
          \A i \in BatchIds : Cardinality({t \in tasks : t.id = i}) = 1

\* two upserts of one id are both between their delete and their insert
C7_Witness ==
    /\ pc["c1"] = "upsertInsert"
    /\ pc["c2"] = "upsertInsert"
    /\ \E i \in 1..Len(loc["c1"].ts), j \in 1..Len(loc["c2"].ts) :
          loc["c1"].ts[i].id = loc["c2"].ts[j].id

\* C8: when a Chore call returns, every task that was active with a deadline
\* earlier than the time of the pass is pending with an empty nonce.
C8_ChoreRecovers ==
    [][last'.op = "Chore" =>
          \A t \in tasks :
              (t.state = TaskStateActive /\ t.deadline # Nil /\ Val(t.deadline) < now) =>
                  \E u \in tasks' :
                      u.id = t.id /\ u.state = TaskStatePending /\ u.nonce = EmptyNonce]_vars

\* C9: with the clock moving and the chore loop running, a task that is claimed
\* and not committed, with a deadline the clock passes, is pending again at
\* some later time.
C9_ClaimedTaskComesBack ==
    \A id \in IDs :
        (\E t \in tasks : /\ t.id = id
                          /\ t.state = TaskStateActive
                          /\ t.deadline # Nil
                          /\ Val(t.deadline) < MaxTime)
            ~> (\E t \in tasks : t.id = id /\ t.state = TaskStatePending)

\* C10: a task returned by Poll(T) has topic T, was pending and due before the
\* poll took effect, and a Poll(T) that answers while T holds no pending task
\* that is due answers not-found.
C10_PollTopic ==
    [][last'.op = "Poll" =>
          /\ last'.status = "ok" =>
                /\ last'.task.topic = last'.topic
                /\ \E t \in tasks : /\ t.id = last'.task.id
                                     /\ t.state = TaskStatePending
                                     /\ t.scheduled # Nil
                                     /\ Val(t.scheduled) <= now
          /\ Eligible(tasks, last'.topic, now) = {} => last'.status = "notfound"]_vars

\* ------------------------------------------------- scheduled-time order
\* what InsertTasks stores for a pending task with an explicit scheduled time
Scheduled(id, topic, s) ==
    normalizeTask(RawTask(TaskStatePending, EmptyNonce, Some(s), Nil, Nil), id, topic, Epoch)

\* the stores of the schedule test: two tasks of one topic, scheduled before the
\* epoch, at the epoch or one tick later
ScheduleStores ==
    { {Scheduled("1", TopicOrder[1], a), Scheduled("2", TopicOrder[1], b)} :
      a \in {Epoch - 1, Epoch, Epoch + 1}, b \in {Epoch - 1, Epoch, Epoch + 1} }

InitSchedule == \E c \in Configs, store \in ScheduleStores : InitWith(c, store, FALSE, {"c1", "c2"})

\* consumers poll while the clock advances; a released task can be polled again
NextSchedule ==
    \/ Tick
    \/ \E p \in Procs : Poll(p)
    \/ \E p \in Procs : PollUpdate(p)
    \/ \E p \in Procs : PollRetry(p)
    \/ \E p \in Procs : DeletePromise(p)

SpecSchedule == InitSchedule /\ [][NextSchedule]_vars

\* the ids of the tasks of a topic that are due at n and have the smallest scheduled time
Earliest(store, topic, n) ==
    {t.id : t \in {x \in Eligible(store, topic, n) :
                      \A u \in Eligible(store, topic, n) : Val(x.scheduled) <= Val(u.scheduled)}}

\* C11: a poll that finds due pending tasks in its topic claims one with the
\* smallest scheduled time: a poll answers not-found only when the topic has no
\* due pending task, a one-step poll returns an earliest task, and the two-step
\* poll picks an earliest task as its candidate and returns its candidate.
C11_PollOrder ==
    [][/\ (last'.op = "Poll" /\ last'.status = "notfound") =>
              Eligible(tasks, last'.topic, now) = {}
       /\ (/\ last'.op = "Poll" /\ last'.status = "ok"
           /\ \A p \in Procs : pc[p] # "pollUpdate"
           /\ Eligible(tasks, last'.topic, now) # {}) =>
              last'.task.id \in Earliest(tasks, last'.topic, now)
       /\ \A p \in Procs :
              /\ (pc[p] # "pollUpdate" /\ pc'[p] = "pollUpdate") =>
                     loc'[p].c.id \in Earliest(tasks, loc'[p].topic, now)
              /\ (pc[p] = "pollUpdate" /\ pc'[p] # "pollUpdate" /\ pc'[p] # "pollPeek") =>
                     last'.task.id = loc[p].c.id]_vars

\* C12: a successful Poll returns the task as it is stored after the call:
\* active, with a nonce that no task holds and none has held, the consumer and
\* the deadline of the promise, and consumed equal to the time the poll read.
C12_PollClaims ==
    [][(last'.op = "Poll" /\ last'.status = "ok") =>
          /\ last'.task \in tasks'
          /\ last'.task.state = TaskStateActive
          /\ last'.task.nonce # EmptyNonce
          /\ \A t \in tasks : t.nonce # last'.task.nonce
          /\ \A x \in spent.ever : x[2] # last'.task.nonce
          /\ last'.task.consumer = last'.body.consumer
          /\ last'.task.consumed = Some(last'.at)
          /\ last'.task.deadline = last'.body.deadline]_vars

\* a poll on the two-step path that read the clock before a tick has claimed a task
C12_Witness ==
    /\ last.op = "Poll"
    /\ last.status = "ok"
    /\ last.at < now
    /\ last.task \in tasks
    /\ last.task.consumer = "w"

\* C13: a Commit that succeeds replaces the task of its id and nothing else; the
\* new task has an empty nonce, the topic, state, scheduled time and payload of
\* the commit where the commit sets them, and every other field as before; a
\* Commit that answers not-found or conflict leaves the store as it was.
C13_CommitFrame ==
    [][last'.op = "Commit" =>
          /\ last'.status \in {"notfound", "conflict"} => tasks' = tasks
          /\ last'.status = "ok" =>
                \E t \in tasks :
                    LET u == last'.task
                        m == last'.body
                    IN  /\ t.id = last'.id
                        /\ tasks' = (tasks \ {t}) \cup {u}
                        /\ u.id = t.id
                        /\ u.producer = t.producer
                        /\ u.consumer = t.consumer
                        /\ u.produced = t.produced
                        /\ u.consumed = t.consumed
                        /\ u.deadline = t.deadline
                        /\ u.nonce = EmptyNonce
                        /\ u.topic = IF m.topic # "" THEN m.topic ELSE t.topic
                        /\ u.state = IF m.state # Nil THEN Val(m.state) ELSE t.state
                        /\ u.scheduled = IF m.scheduled # Nil THEN m.scheduled ELSE t.scheduled
                        /\ u.payload = IF m.payload # Nil THEN m.payload ELSE t.payload]_vars

\* a commit has moved a claimed task to another topic beside an untouched task
C13_Witness ==
    /\ last.op = "Commit"
    /\ last.status = "ok"
    /\ last.body.topic = TopicOrder[2]
    /\ last.task.id = "1"
    /\ last.task.consumer = "w"
    /\ last.task.deadline # Nil
    /\ last.task \in tasks
    /\ Cardinality(tasks) = 2

\* C14: a commit request without a state is normalized to the state completed,
\* every engine applies it to any stored task it accepts it for by storing the
\* state completed, and a Commit that has just succeeded with such a commit has
\* left its task completed in the store.
C14_DefaultCompleted ==
    /\ \A raw \in RawCommits :
          raw.state = Nil =>
              LET m == normalizeCommit(raw, now)
              IN  /\ m.valid
                  /\ m.state = Some(TaskStateCompleted)
                  /\ \A t \in tasks :
                        /\ memdbCommit(tasks, t.id, m).status = "ok" =>
                              /\ memdbCommit(tasks, t.id, m).task.state = TaskStateCompleted
                              /\ \E u \in memdbCommit(tasks, t.id, m).store :
                                    u.id = t.id /\ u.state = TaskStateCompleted
                        /\ mongoUpdateOpsCommit(t, m).state = TaskStateCompleted
    /\ (last.op = "Commit" /\ last.status = "ok" /\ last.body.state = Some(TaskStateCompleted)) =>
          /\ last.task.state = TaskStateCompleted
          /\ \E u \in tasks : u.id = last.id /\ u.state = TaskStateCompleted

\* a claimed task has just been committed with its nonce and no target state
C14_Witness ==
    /\ last.op = "Commit"
    /\ last.status = "ok"
    /\ last.body.nonce # EmptyNonce
    /\ last.body.state = Some(TaskStateCompleted)
    /\ last.task.consumer = "w"
    /\ \E u \in tasks : u.id = last.id /\ u.state = TaskStateCompleted

\* C15 as stated: a Commit answers conflict only for a non-empty nonce, and a
\* Commit that answers in one step answers not-found exactly when no task has
\* the id and conflict exactly when the task exists and the non-empty nonce of
\* the commit differs from the nonce of the task.
C15_CommitErrors ==
    [][last'.op = "Commit" =>
          /\ last'.status = "conflict" => last'.nonce # EmptyNonce
          /\ (\A p \in Procs : pc'[p] = pc[p]) =>
                /\ last'.status = "notfound" <=> ~\E t \in tasks : t.id = last'.id
                /\ last'.status = "conflict" <=>
                      \E t \in tasks : /\ t.id = last'.id
                                       /\ last'.nonce # EmptyNonce
                                       /\ t.nonce # last'.nonce]_vars

\* C15 amended: a Commit succeeds only on a stored task whose nonce a non-empty
\* commit nonce equals; a Commit that answers in one step answers not-found
\* exactly when the task is missing and conflict exactly when a non-empty nonce
\* differs; after an atomic update without a match the answer is conflict if
\* the task exists at the second read and not-found if not; after the
\* optimistic read the answer is conflict exactly when the task read is no
\* longer stored with the same topic, state and nonce, whatever the commit nonce.
C15_CommitErrorsByPath ==
    [][last'.op = "Commit" =>
          /\ last'.status \in {"ok", "notfound", "conflict"}
          /\ last'.status = "ok" =>
                \E t \in tasks : /\ t.id = last'.id
                                 /\ last'.nonce # EmptyNonce => t.nonce = last'.nonce
          /\ (\A p \in Procs : pc'[p] = pc[p]) =>
                /\ last'.status = "notfound" <=> ~\E t \in tasks : t.id = last'.id
                /\ last'.status = "conflict" <=>
                      \E t \in tasks : /\ t.id = last'.id
                                       /\ last'.nonce # EmptyNonce
                                       /\ t.nonce # last'.nonce
          /\ \A p \in Procs :
                /\ (pc[p] = "commitExists" /\ pc'[p] # pc[p]) =>
                      /\ last'.nonce # EmptyNonce
                      /\ last'.status = "conflict" <=> \E t \in tasks : t.id = last'.id
                      /\ last'.status = "notfound" <=> ~\E t \in tasks : t.id = last'.id
                /\ (pc[p] = "commitUpdate" /\ pc'[p] # pc[p]) =>
                      last'.status = "conflict" <=>
                          ~\E t \in tasks : /\ t.id = last'.id
                                            /\ t.topic = loc[p].c.topic
                                            /\ t.state = loc[p].c.state
                                            /\ t.nonce = loc[p].c.nonce]_vars

\* a Commit without a nonce has been answered conflict while its task is stored
C15_Witness ==
    /\ last.op = "Commit"
    /\ last.status = "conflict"
    /\ last.nonce = EmptyNonce
    /\ \E t \in tasks : t.id = last.id

\* the insert and upsert operations
Writes == {"InsertTask", "InsertTasks", "UpsertTask", "UpsertTasks"}

\* the tasks a step has created: those whose id was not stored before it
Created == {u \in tasks' : ~\E t \in tasks : t.id = u.id}

\* C16 as stated: every task created by an insert or upsert is stored pending.
C16_CreatedPending ==
    [][(last'.op \in Writes /\ last'.status = "ok") =>
          \A u \in Created : u.state = TaskStatePending]_vars

\* C16 amended: the normalizer keeps the state of the request, and every task
\* created by an insert or upsert is stored as the normalized request gives it,
\* so it is pending exactly when the request says pending (or nothing).
C16_CreatedAsRequested ==
    [][/\ \A raw \in RawTasks, path \in Paths :
              normalizeTask(raw, path.id, path.topic, now).state = raw.state
       /\ (last'.op \in Writes /\ last'.status = "ok") =>
              \A u \in Created : \E i \in 1..Len(last'.body) : u = last'.body[i]]_vars

\* an insert has just created a task in state active that no claim has touched
C16_Witness ==
    /\ last.op = "InsertTask"
    /\ last.status = "ok"
    /\ last.created = 1
    /\ last.body[1].state = TaskStateActive
    /\ last.body[1] \in tasks

\* the pairs <<before, after>> of a step that takes a stored task from pending to active
Activated ==
    {a \in tasks \X tasks' : /\ a[1].id = a[2].id
                             /\ a[1].state = TaskStatePending
                             /\ a[2].state = TaskStateActive}

\* C17 as stated: a step takes a task from pending to active only as a
\* successful poll, insert-promise or upsert-promise.
C17_OnlyClaimsActivate ==
    [][Activated # {} => (last'.op \in Claims /\ last'.status = "ok")]_vars

\* C17 amended: a step takes a task from pending to active only as a successful
\* claim that returns it, a successful commit whose target state is active, or
\* a successful upsert whose request stores it as active; never as an insert,
\* a promise deletion, a task deletion or a chore pass.
C17_ActivatedBy ==
    [][\A a \in Activated :
          \/ last'.op \in Claims /\ last'.status = "ok" /\ last'.task = a[2]
          \/ /\ last'.op = "Commit" /\ last'.status = "ok"
             /\ last'.body.state = Some(TaskStateActive) /\ last'.task = a[2]
          \/ /\ last'.op \in {"UpsertTask", "UpsertTasks"} /\ last'.status = "ok"
             /\ \E i \in 1..Len(last'.body) : last'.body[i] = a[2]]_vars

\* a commit with the target state active has just left active a task that was
\* never claimed
C17_Witness ==
    /\ last.op = "Commit"
    /\ last.status = "ok"
    /\ last.body.state = Some(TaskStateActive)
    /\ last.task.state = TaskStateActive
    /\ last.task.consumed = Nil
    /\ last.task \in tasks

\* what a claim at time at with nonce n and promise pr makes of the task t
ClaimOf(t, pr, at, n) ==
    [t EXCEPT !.state = TaskStateActive, !.nonce = n, !.consumer = pr.consumer,
              !.consumed = Some(at), !.deadline = pr.deadline]

\* C18: an InsertPromise that succeeds found its task pending and leaves it
\* claimed as a poll would (active, a nonce that is new, the consumer and the
\* deadline of the promise), changing nothing else; one that fails changes
\* nothing; not-found is answered only while no task has the id; an answer made
\* on the first read is not-found for a missing task, conflict for a task that
\* is not pending and success for a pending one; the second read of the atomic
\* path answers conflict for a stored task and not-found for a missing one, and
\* the update of the optimistic path succeeds when the pending task it read is
\* still stored as read and answers conflict when it is not.
C18_InsertPromise ==
    [][last'.op = "InsertPromise" =>
          /\ last'.status \in {"ok", "notfound", "conflict"}
          /\ last'.status = "ok" =>
                \E t \in tasks :
                    /\ t.id = last'.id
                    /\ t.state = TaskStatePending
                    /\ last'.task.nonce # EmptyNonce
                    /\ \A x \in tasks : x.nonce # last'.task.nonce
                    /\ last'.task = ClaimOf(t, last'.body, last'.at, last'.task.nonce)
                    /\ tasks' = (tasks \ {t}) \cup {last'.task}
          /\ last'.status # "ok" => tasks' = tasks
          /\ last'.status = "notfound" => ~\E t \in tasks : t.id = last'.id
          /\ (\A p \in Procs : pc'[p] = pc[p]) =>
                /\ last'.status = "notfound" <=> ~\E t \in tasks : t.id = last'.id
                /\ last'.status = "conflict" <=>
                      \E t \in tasks : t.id = last'.id /\ t.state # TaskStatePending
          /\ \A p \in Procs :
                /\ (pc[p] = "insertPromiseExists" /\ pc'[p] # pc[p]) =>
                      last'.status = "conflict" <=> \E t \in tasks : t.id = last'.id
                /\ (pc[p] = "insertPromiseUpdate" /\ pc'[p] # pc[p]) =>
                      last'.status = "ok" <=>
                          \E t \in tasks : /\ t.id = last'.id
                                           /\ t.topic = loc[p].c.topic
                                           /\ t.state = TaskStatePending
                                           /\ t.nonce = loc[p].c.nonce]_vars

\* on the atomic path an InsertPromise has been refused for a task that is
\* stored and active, after a second read
C18_Witness ==
    /\ last.op = "InsertPromise"
    /\ last.status = "conflict"
    /\ engine = "mongodb"
    /\ fallback["InsertPromise"] = 0
    /\ \E t \in tasks : t.id = last.id /\ t.state = TaskStateActive /\ t.nonce # EmptyNonce

\* ------------------------------------------------------- promise races
\* every caller inserts one promise, all at the same time, on pending tasks
InitPromiseRace == \E c \in Configs, store \in PollStores : InitWith(c, store, TRUE, Procs)

NextPromiseRace ==
    \/ \E p \in Procs : InsertPromise(p)
    \/ \E p \in Procs : InsertPromiseExists(p)
    \/ \E p \in Procs : InsertPromiseUpdate(p)

SpecPromiseRace == InitPromiseRace /\ [][NextPromiseRace]_vars

\* the callers whose call of the given operation targeted the task id
Callers(op, id) == {p \in Procs : ret[p].op = op /\ ret[p].id = id}

\* C19: when the concurrent InsertPromise calls have all returned, for every
\* task that was pending and was targeted by several of them exactly one call
\* succeeded, every other one returned conflict, and the task is stored active
\* as the winner got it.
C19_InsertPromiseRace ==
    AllDone =>
        \A id \in IDs :
            LET s == Callers("InsertPromise", id)
            IN  (/\ Cardinality(s) >= 2
                 /\ \E t \in origin : t.id = id /\ t.state = TaskStatePending)
                => \E w \in s :
                      /\ ret[w].status = "ok"
                      /\ ret[w].task \in tasks
                      /\ ret[w].task.state = TaskStateActive
                      /\ ret[w].task.nonce # EmptyNonce
                      /\ \A q \in s \ {w} : ret[q].status = "conflict"

\* three InsertPromise calls have raced for one task on the optimistic path
C19_Witness ==
    /\ AllDone
    /\ engine = "mongodb"
    /\ fallback["InsertPromise"] = 1
    /\ Callers("InsertPromise", "1") = Procs
    /\ \E w \in Procs : ret[w].status = "ok"
    /\ \E q \in Procs : ret[q].status = "conflict"

\* C20: an UpsertPromise answers success or not-found, not-found only while no
\* task has the id; an answer made on a read is not-found exactly when the
\* task is missing; a success claims the stored task of that id whatever its
\* state (active, a new nonce, the consumer and the deadline of the promise)
\* and changes nothing else; an optimistic update that another call has
\* overtaken is tried again, so concurrent calls on a stored task all succeed.
C20_UpsertPromise ==
    [][/\ last'.op = "UpsertPromise" =>
              /\ last'.status \in {"ok", "notfound"}
              /\ last'.status = "notfound" <=> ~\E t \in tasks : t.id = last'.id
              /\ last'.status = "notfound" => tasks' = tasks
              /\ last'.status = "ok" =>
                    \E t \in tasks :
                        /\ t.id = last'.id
                        /\ last'.task.nonce # EmptyNonce
                        /\ \A x \in tasks : x.nonce # last'.task.nonce
                        /\ last'.task = ClaimOf(t, last'.body, last'.at, last'.task.nonce)
                        /\ tasks' = (tasks \ {t}) \cup {last'.task}
       /\ \A p \in Procs :
              (pc[p] = "upsertPromiseUpdate" /\ pc'[p] # pc[p]) =>
                  \/ last'.op = "UpsertPromise" /\ last'.status = "ok"
                  \/ pc'[p] = "upsertPromisePeek" /\ tasks' = tasks]_vars

\* an UpsertPromise has just claimed a task that a commit had archived
C20_Witness ==
    /\ last.op = "UpsertPromise"
    /\ last.status = "ok"
    /\ last.task.state = TaskStateActive
    /\ last.task.payload = Some("b")
    /\ last.task \in tasks

\* ------------------------------------------------------------- promises
\* promises are made, read, released and recovered on stored pending tasks
InitPromise == \E c \in Configs, store \in PollStores : InitWith(c, store, FALSE, {"c1", "c2"})

NextPromise ==
    \/ Tick
    \/ Chore
    \/ \E p \in Procs : InsertPromise(p)
    \/ \E p \in Procs : InsertPromiseExists(p)
    \/ \E p \in Procs : InsertPromiseUpdate(p)
    \/ \E p \in Procs : GetPromise(p)
    \/ \E p \in Procs : DeletePromise(p)
    \/ \E p \in Procs : DeletePromises(p)

SpecPromise == InitPromise /\ [][NextPromise]_vars

\* C21: GetPromise(id) returns the id, the consumer and the deadline of the
\* task when the task exists and is active, and returns not-found when the
\* task is missing or is in any other state.
C21_GetPromise ==
    [][last'.op = "GetPromise" =>
          IF \E t \in tasks : t.id = last'.id /\ t.state = TaskStateActive
          THEN /\ last'.status = "ok"
               /\ \E t \in tasks : /\ t.id = last'.id
                                   /\ last'.body.id = t.id
                                   /\ last'.body.consumer = t.consumer
                                   /\ last'.body.deadline = t.deadline
          ELSE last'.status = "notfound"]_vars

\* what a released promise leaves of the active tasks a
Released(a) == {[t EXCEPT !.state = TaskStatePending, !.nonce = EmptyNonce] : t \in a}

\* C22: DeletePromise(id) and DeletePromises(topic) move exactly the active
\* tasks of the id or of the topic to pending with the nonce cleared, report
\* the number of tasks so changed, and leave every other task untouched.
C22_DeletePromises ==
    [][/\ last'.op = "DeletePromise" =>
              LET a == {t \in tasks : t.id = last'.id /\ t.state = TaskStateActive}
              IN  /\ last'.status = "ok"
                  /\ last'.updated = Cardinality(a)
                  /\ tasks' = (tasks \ a) \cup Released(a)
       /\ last'.op = "DeletePromises" =>
              LET a == {t \in tasks : t.topic = last'.topic /\ t.state = TaskStateActive}
              IN  /\ last'.status = "ok"
                  /\ last'.updated = Cardinality(a)
                  /\ tasks' = (tasks \ a) \cup Released(a)]_vars

\* DeletePromises has just released the one promise of a topic of two tasks
C22_Witness ==
    /\ last.op = "DeletePromises"
    /\ last.updated = 1
    /\ Cardinality(tasks) = 2
    /\ \A t \in tasks : t.topic = last.topic /\ t.state = TaskStatePending /\ t.nonce = EmptyNonce
    /\ \E t \in tasks : t.consumer # ""

\* ---------------------------------------------------------- write races
\* the stores of the concurrent insert and upsert tests: empty, or pending tasks
WriteStores == {{}} \cup PollStores

\* every caller inserts one task, all at the same time
InitInsertRace == \E c \in Configs, store \in WriteStores : InitWith(c, store, TRUE, Procs)

NextInsertRace == \E p \in Procs : InsertTask(p)

SpecInsertRace == InitInsertRace /\ [][NextInsertRace]_vars

\* C23: InsertTask for an id that already exists returns conflict and leaves
\* the stored task unchanged; when the concurrent InsertTask calls have all
\* returned, for every id that was absent and that some of them targeted
\* exactly one call reports created = 1 and all the others conflict.
C23_InsertTask ==
    /\ [][last'.op = "InsertTask" =>
              IF \E t \in tasks : t.id = last'.id
              THEN last'.status = "conflict" /\ last'.created = 0 /\ tasks' = tasks
              ELSE last'.status = "ok" /\ last'.created = 1]_vars
    /\ [](AllDone =>
            \A id \in IDs :
                LET s == Callers("InsertTask", id)
                IN  (s # {} /\ ~\E t \in origin : t.id = id)
                    => \E w \in s :
                          /\ ret[w].status = "ok"
                          /\ ret[w].created = 1
                          /\ \A q \in s \ {w} : ret[q].status = "conflict" /\ ret[q].created = 0)

\* three InsertTask calls for one absent id have returned: one created it
C23_Witness ==
    /\ AllDone
    /\ origin = {}
    /\ Callers("InsertTask", "1") = Procs
    /\ Cardinality({p \in Procs : ret[p].status = "ok"}) = 1
    /\ Cardinality({p \in Procs : ret[p].status = "conflict"}) = 2
    /\ \E t \in tasks : t.id = "1"

\* every caller inserts one batch, all at the same time
InitBatchRace == \E c \in Configs, store \in WriteStores : InitWith(c, store, TRUE, Procs)

NextBatchRace == \E p \in Procs : InsertTasks(p)

SpecBatchRace == InitBatchRace /\ [][NextBatchRace]_vars

\* the tasks of a batch, the ids of a set of tasks
Batch(ts) == {ts[i] : i \in 1..Len(ts)}
Ids(store) == {t.id : t \in store}

\* the created counts the callers of s were answered, added up
RECURSIVE CreatedBy(_)
CreatedBy(s) ==
    IF s = {} THEN 0
    ELSE LET p == CHOOSE q \in s : TRUE
         IN  (IF ret[p].op = "" THEN 0 ELSE ret[p].created) + CreatedBy(s \ {p})

\* C24: InsertTasks succeeds whether or not ids of the batch are stored, keeps
\* every stored task as it is, adds exactly the tasks of the batch whose ids
\* were not stored, and reports created equal to the number of tasks it added;
\* when the concurrent batches have all returned, their created counts add up
\* to the number of new ids in the store.
C24_InsertTasks ==
    /\ [][last'.op = "InsertTasks" =>
              /\ last'.status = "ok"
              /\ tasks \subseteq tasks'
              /\ tasks' \ tasks \subseteq Batch(last'.body)
              /\ Ids(tasks') = Ids(tasks) \cup Ids(Batch(last'.body))
              /\ Cardinality(Ids(tasks')) = Cardinality(tasks')
              /\ last'.created = Cardinality(tasks' \ tasks)
              /\ last'.updated = 0]_vars
    /\ [](AllDone => CreatedBy(Procs) = Cardinality(Ids(tasks) \ Ids(origin)))

\* three batches have returned: one task was stored before, one was added
C24_Witness ==
    /\ AllDone
    /\ Cardinality(origin) = 1
    /\ Cardinality(tasks) = 2
    /\ origin \subseteq tasks
    /\ CreatedBy(Procs) = 1
    /\ \E p \in Procs : ret[p].op = "InsertTasks" /\ ret[p].created = 0

\* ---------------------------------------------------------- upsert counts
\* the tasks of a batch have different ids
Distinct(ts) == Cardinality(Ids(Batch(ts))) = Len(ts)

\* the number of tasks of a batch whose id is stored
Present(store, ts) == Cardinality({i \in 1..Len(ts) : ts[i].id \in Ids(store)})

\* C25: an UpsertTask or UpsertTasks of tasks with different ids reports
\* created = the number of them whose id was absent before the call and
\* updated = the number whose id was present, so created + updated is the
\* number of tasks supplied (an upsert of a stored id reports created = 0,
\* updated = 1); on the delete-and-insert path the ids are counted by the
\* delete that opens the call.
C25_UpsertCounts ==
    [][/\ (/\ last'.op \in {"UpsertTask", "UpsertTasks"}
           /\ last'.status = "ok"
           /\ Distinct(last'.body)
           /\ \A p \in Procs : pc'[p] = pc[p])
          => /\ last'.updated = Present(tasks, last'.body)
             /\ last'.created = Len(last'.body) - Present(tasks, last'.body)
       /\ \A p \in Procs :
              /\ (pc[p] # "upsertInsert" /\ pc'[p] = "upsertInsert" /\ Distinct(loc'[p].ts))
                 => loc'[p].deleted = Present(tasks, loc'[p].ts)
              /\ (pc[p] = "upsertInsert" /\ pc'[p] # pc[p] /\ Distinct(loc[p].ts))
                 => /\ last'.updated = loc[p].deleted
                    /\ last'.created = Len(loc[p].ts) - loc[p].deleted]_vars

\* -------------------------------------------------------- upsert atomicity
\* the calls that answer not-found when no task has the id they name
Lookups == {"InsertPromise", "UpsertPromise", "Commit"}

\* the answer was made by the step that started the call
Direct == \A p \in Procs : pc'[p] = pc[p]

\* the tasks of the store whose ids the batch does not name
Others(store, ts) == {t \in store : t.id \notin Ids(Batch(ts))}

\* C26: every task of an UpsertTask or UpsertTasks call is replaced or
\* inserted atomically: no claim or commit is answered not-found for an id
\* that an upsert in progress found stored, and when an upsert returns the
\* stored task of each of its ids is one of the versions it supplied.
C26_UpsertAtomic ==
    [][/\ (last'.op \in Lookups /\ last'.status = "notfound" /\ Direct)
          => ~\E p \in Procs : /\ pc[p] = "upsertInsert"
                               /\ Distinct(loc[p].ts)
                               /\ loc[p].deleted = Len(loc[p].ts)
                               /\ last'.id \in Ids(Batch(loc[p].ts))
       /\ (last'.op \in {"UpsertTask", "UpsertTasks"} /\ last'.status = "ok")
          => \A t \in Batch(last'.body) :
                \E u \in tasks' : u.id = t.id /\ u \in Batch(last'.body)]_vars

\* C26 as the code has it: on the memdb engine and on the MongoDB replace path
\* an upsert is one step, after which the stored task of each of its ids is
\* one of the supplied versions and every other task is as before; the MongoDB
\* delete-and-insert path (sharded collections) takes two steps: the first
\* deletes the stored tasks of the batch ids, the second inserts the tasks of
\* the batch whose ids are free at that moment and keeps a task that another
\* call has stored under one of the ids in between.
C26_UpsertAtomicByPath ==
    [][/\ (last'.op \in {"UpsertTask", "UpsertTasks"} /\ last'.status = "ok" /\ Direct)
          => /\ engine = "memdb" \/ Route(last'.op).path = "preferred"
             /\ Others(tasks', last'.body) = Others(tasks, last'.body)
             /\ \A t \in Batch(last'.body) :
                   \E u \in tasks' : u.id = t.id /\ u \in Batch(last'.body)
       /\ \A p \in Procs :
              /\ (pc[p] # "upsertInsert" /\ pc'[p] = "upsertInsert")
                 => /\ engine = "mongodb"
                    /\ Route(loc'[p].op).path = "fallback"
                    /\ tasks' = Others(tasks, loc'[p].ts)
              /\ (pc[p] = "upsertInsert" /\ pc'[p] # pc[p])
                 => /\ last'.op = loc[p].op
                    /\ last'.status = "ok"
                    /\ tasks \subseteq tasks'
                    /\ tasks' \ tasks \subseteq Batch(loc[p].ts)
                    /\ Ids(Batch(loc[p].ts)) \subseteq Ids(tasks')]_vars

\* a delete-and-insert upsert has returned after another call stored a task
\* under its id: the stored task is not the version it supplied
C26_Witness ==
    /\ last.op = "UpsertTask"
    /\ last.status = "ok"
    /\ engine = "mongodb"
    /\ fallback["UpsertTask"] = 1
    /\ last.body[1] \notin tasks
    /\ last.body[1].id \in Ids(tasks)

\* ------------------------------------------------------------ expiration
\* what InsertTasks stores for a task in a given state with a consumed time;
\* an active task has a deadline one tick after the epoch
Expiring(id, state, c) ==
    [normalizeTask(RawTask(state, EmptyNonce, Some(Epoch), Nil, Some(c)), id, TopicOrder[1], Epoch)
     EXCEPT !.deadline = IF state = TaskStateActive THEN Some(Epoch + 1) ELSE Nil]

\* the stores of the expiration test: a completed task and a task in any
\* state, each consumed before the epoch, at the epoch or one tick later
ExpireStores ==
    { {Expiring("1", TaskStateCompleted, a), Expiring("2", s, b)} :
      a \in {Epoch - 1, Epoch, Epoch + 1}, b \in {Epoch - 1, Epoch, Epoch + 1},
      s \in TaskStatePending..TaskStateArchived }

InitExpire == \E c \in Configs, store \in ExpireStores : InitWith(c, store, FALSE, {"c1", "c2"})

\* the chore loop runs while the clock advances; tasks are deleted on request
NextExpire ==
    \/ Tick
    \/ Chore
    \/ \E p \in Procs : DeleteTask(p)

SpecExpire == InitExpire /\ [][NextExpire]_vars

\* C27: a Chore pass of the in-memory engine deletes every completed task whose
\* consumed time plus the retention period is not after the current time, and
\* keeps every completed task that is still inside its retention period.
C27_ChoreExpires ==
    [][(last'.op = "Chore" /\ engine = "memdb") =>
          \A t \in tasks :
              (t.state = TaskStateCompleted /\ t.consumed # Nil)
              => (t \in tasks' <=> After(Val(t.consumed) + RetentionPeriod, now))]_vars

\* C28: Chore never deletes a task that is pending, active or archived: such a
\* task is still stored after the pass (an active task possibly recovered to
\* pending, any other exactly as it was), and an archived task leaves the
\* store only by a delete call.
C28_ChoreKeeps ==
    [][/\ last'.op = "Chore" =>
              \A t \in tasks :
                  /\ t.state # TaskStateCompleted => t.id \in Ids(tasks')
                  /\ t.state \in {TaskStatePending, TaskStateArchived} => t \in tasks'
       /\ \A t \in tasks :
              (t.state = TaskStateArchived /\ t \notin tasks')
              => last'.op = "DeleteTask" /\ last'.id = t.id]_vars

\* a Chore pass one retention period after an archived task was consumed has
\* deleted a completed task and kept the archived one
C28_Witness ==
    /\ last.op = "Chore"
    /\ engine = "memdb"
    /\ Cardinality(origin) = 2
    /\ Cardinality(tasks) = 1
    /\ \E t \in tasks : /\ t.state = TaskStateArchived
                        /\ t.consumed # Nil
                        /\ ~After(Val(t.consumed) + RetentionPeriod, now)

\* -------------------------------------------------------------- snapshots
\* the payloads of the snapshot test: none, a string, a number, an object, an array
Payloads == {Nil, Some("hello"), Some("3.14"), Some("{}"), Some("[1,2]")}

\* the stores of the snapshot test: none, or an active or completed task with
\* any payload and a pending task with a number payload
SnapshotStores ==
    {{}} \cup
    { {[Expiring("1", s, Epoch) EXCEPT !.payload = a],
       [Expiring("2", TaskStatePending, Epoch + 1) EXCEPT !.payload = Some("3.14")]} :
      s \in {TaskStateActive, TaskStateCompleted}, a \in Payloads }

\* an in-memory engine, with or without a snapshot path, and no snapshot file
InitSnapshot ==
    \E store \in SnapshotStores, sp \in {"", "test.db"} :
        InitEngine(CHOOSE c \in Configs : c.engine = "memdb", store, FALSE, {"c1", "c2"}, sp)

\* tasks are inserted, the chore loop runs, the server is closed and opened again
NextSnapshot ==
    \/ Tick
    \/ Chore
    \/ \E p \in Procs : InsertTask(p)
    \/ Close
    \/ Open

SpecSnapshot == InitSnapshot /\ [][NextSnapshot]_vars

\* C29: with a snapshot path configured on the in-memory engine, a Chore call
\* made when no snapshot has been written yet (the snapshot interval has
\* elapsed since the last snapshot: there is none) writes a snapshot file at
\* the configured path.
C29_ChoreSnapshots ==
    [][(last'.op = "Chore" /\ engine = "memdb" /\ snapshotPath # "" /\ ~file.exists)
       => file'.exists]_vars

FlagSettings == {Fallback(-1), Fallback(0), Fallback(1), [Fallback(0) EXCEPT !["Poll"] = 1]}

\* a MongoDB engine on a collection that accepts or rejects the atomic commands
InitFallback ==
    \E s \in BOOLEAN, f \in FlagSettings :
        InitWith([engine |-> "mongodb", sharded |-> s, fallback |-> f],
                 {Stored("1", TopicOrder[1], EmptyNonce), Stored("2", TopicOrder[2], EmptyNonce)},
                 FALSE, {"c1", "c2"})

\* the calls of the dual-path operations
NextFallback ==
    \/ \E p \in Procs : UpsertTask(p)
    \/ \E p \in Procs : UpsertTasks(p)
    \/ \E p \in Procs : UpsertInsert(p)
    \/ \E p \in Procs : Poll(p)
    \/ \E p \in Procs : PollUpdate(p)
    \/ \E p \in Procs : PollRetry(p)
    \/ \E p \in Procs : Commit(p)
    \/ \E p \in Procs : CommitExists(p)
    \/ \E p \in Procs : CommitUpdate(p)
    \/ \E p \in Procs : InsertPromise(p)
    \/ \E p \in Procs : InsertPromiseExists(p)
    \/ \E p \in Procs : InsertPromiseUpdate(p)
    \/ \E p \in Procs : UpsertPromise(p)
    \/ \E p \in Procs : UpsertPromiseUpdate(p)
    \/ \E p \in Procs : UpsertPromiseRetry(p)

SpecFallback == InitFallback /\ [][NextFallback]_vars

\* where a call stands after the first step of its atomic or of its
\* optimistic (fallback) implementation
AtomicSteps == {"commitExists", "insertPromiseExists"}
OptimisticSteps == {"upsertInsert", "pollUpdate", "commitUpdate", "insertPromiseUpdate",
                    "upsertPromiseUpdate"}

\* C31: a fallback flag changes only from 0 to 1, only in a call of its own
\* operation whose atomic command the server rejected (code 61 or 31025); a
\* flag at -1 or 1 is never changed, a call that sees 1 does not run the atomic
\* implementation, a call that sees -1 does not run the optimistic one and
\* returns the server error instead.
C31_FallbackLatch ==
    [][/\ \A op \in FlagOps :
              fallback'[op] # fallback[op] =>
                  /\ fallback[op] = 0 /\ fallback'[op] = 1
                  /\ engine = "mongodb" /\ sharded
                  /\ \/ \E p \in Procs : Idle(p) /\ loc'[p].op = op
                     \/ Direct /\ last'.op = op
                  /\ \A o \in FlagOps \ {op} : fallback'[o] = fallback[o]
       /\ \A p \in Procs :
              /\ (Idle(p) /\ pc'[p] \in OptimisticSteps)
                 => fallback[loc'[p].op] >= 0 /\ fallback'[loc'[p].op] = 1
              /\ (Idle(p) /\ pc'[p] \in AtomicSteps)
                 => fallback[loc'[p].op] <= 0 /\ ~sharded
       /\ (last'.op \in FlagOps /\ last'.status = "ok" /\ Direct /\ engine = "mongodb")
          => fallback[last'.op] <= 0 /\ ~sharded
       /\ (last'.op \in FlagOps /\ engine = "mongodb")
          => (last'.status = "error"
              <=> (Direct /\ sharded /\ fallback[last'.op] = -1))]_vars

\* a poll has returned a task by the optimistic path after the server rejected
\* the atomic command of an earlier poll, which set the flag of Poll only
C31_Witness ==
    /\ sharded
    /\ last.op = "Poll"
    /\ last.status = "ok"
    /\ fallback["Poll"] = 1
    /\ fallback["Commit"] = 0

\* ------------------------------------------------------ graceful shutdown
\* the server process over an engine that holds one active task about to expire
InitMain ==
    \E c \in Configs :
        InitWith(c, {Expiring("1", TaskStateActive, Epoch)}, FALSE, {})

NextMain ==
    \/ Tick
    \/ Run
    \/ Signal
    \/ \E r \in Requests : Accept(r)
    \/ \E r \in Requests : Handle(r)
    \/ ListenFail
    \/ Shutdown
    \/ Drained
    \/ ServeReturn
    \/ ChoreTick
    \/ ChorePass
    \/ ChoreStop
    \/ WaitClose
    \/ Exit

SpecMain == InitMain /\ [][NextMain]_vars

\* the process was stopped by a signal and by nothing else
BySignal == srv.signalled /\ srv.serve # "failed" /\ srv.chore # "cancelled"

\* C32: after SIGINT or SIGTERM the server finishes its in-flight requests,
\* the chore loop exits only after that, the engine is closed only after both,
\* and no request and no chore pass runs against the closed engine.
C32_GracefulShutdown ==
    /\ (BySignal /\ srv.port > 0 /\ srv.interval > 0 /\ srv.chore = "returned")
       => srv.server = "drained"
    /\ (BySignal /\ srv.closed)
       => (srv.inflight = {} /\ srv.chore = "returned" /\ srv.server \in {"none", "drained"})
    /\ BySignal => ~srv.onClosed

\* what the code does give: the engine is closed only after the chore loop has
\* returned, and no chore pass runs against the closed engine
C32_ChoreBeforeClose ==
    [][/\ (srv.closed => srv.chore \in {"returned", "cancelled"})
       /\ (srv'.passes # srv.passes => ~srv.closed)]_vars

\* a handler has run on the closed engine after a signal
C32_Witness == BySignal /\ srv.onClosed

\* ---------------------------------------------------------- topic listing
\* stores of up to three tasks, each under either topic
TopicStores ==
    { {Stored(ListIds[i], f[i], EmptyNonce) : i \in s} :
      s \in SUBSET (1..Len(ListIds)), f \in [1..Len(ListIds) -> Topics] }

InitTopics == \E c \in Configs, store \in TopicStores : InitWith(c, store, FALSE, {})

NextTopics == ListTopics

SpecTopics == InitTopics /\ [][NextTopics]_vars

\* the number of topics due in the window
Due(store, limit, offset) ==
    LET n == Cardinality({t.topic : t \in store})
    IN  IF n <= offset THEN 0 ELSE IF n - offset < limit THEN n - offset ELSE limit

\* a listing without duplicates, of topics that have a task, as long as the window asks
Listing(v, store, limit, offset) ==
    /\ \A i, j \in 1..Len(v) : v[i] = v[j] => i = j
    /\ \A i \in 1..Len(v) : \E t \in store : t.topic = v[i]
    /\ Len(v) = Due(store, limit, offset)

\* C33: ListTopics returns each topic that has at least one task exactly once
\* within the limit/offset window, whatever the order of the task ids across
\* the topics.
C33_ListTopics ==
    last.op = "ListTopics" => Listing(last.body, tasks, last.limit, last.offset)

\* the same for the scan of the topic index
C33_ListTopicsByTopic ==
    \A limit \in 1..MaxLimit, offset \in 0..MaxLimit :
        Listing(memdbListTopicsByTopic(tasks, limit, offset), tasks, limit, offset)

\* the ids of one topic enclose an id of the other, and the topics were listed
C33_Witness ==
    /\ last.op = "ListTopics"
    /\ \E a, b, c \in tasks : a.id = "1" /\ b.id = "2" /\ c.id = "3"
                              /\ a.topic = c.topic /\ a.topic # b.topic

\* a message contains a phrase
Contains(message, phrase) == \E i \in 1..Len(message) : message[i] = phrase

\* C34: an insert-promise request rejected because the target task is not
\* pending is answered with status 409 and a message that contains "the target
\* task is not in pending state".
C34_PostPromiseConflict ==
    (last.op = "InsertPromise" /\ last.status = "conflict")
    => /\ PostPromise(last.status).code = 409
       /\ Contains(PostPromise(last.status).message, "the target task is not in pending state")

\* what the controller sends: status 409 with its own wording
C34_PostPromiseSent ==
    (last.op = "InsertPromise" /\ last.status = "conflict")
    => /\ PostPromise(last.status).code = 409
       /\ Contains(PostPromise(last.status).message, "a promise for the same task already exists")

\* an insert-promise was rejected for a task that exists and is not pending
C34_Witness ==
    /\ last.op = "InsertPromise"
    /\ last.status = "conflict"
    /\ \E t \in tasks : t.id = last.id /\ t.state # TaskStatePending

\* ---------------------------------------------------------- shared data
\* one caller of the in-memory engine, which changes what it holds after a call
InitAlias ==
    InitWith([engine |-> "memdb", sharded |-> FALSE, fallback |-> Fallback(0)],
             {Stored("1", TopicOrder[1], EmptyNonce)}, FALSE, {"c1"})

NextAlias ==
    \/ \E p \in Procs : InsertTask(p)
    \/ \E p \in Procs : Poll(p)
    \/ \E p \in Procs : Commit(p)
    \/ Mutate

SpecAlias == InitAlias /\ [][NextAlias]_vars

C36_ForceCommit ==
    [][(last'.op = "Commit" /\ last'.nonce = EmptyNonce)
       => /\ last'.status # "conflict"
          /\ (\E t \in tasks : t.id = last'.id) => last'.status = "ok"]_vars

\* C36 amended: a Commit with an empty nonce that is decided by one command
\* (the in-memory engine, the atomic path) succeeds exactly when the task
\* exists and never returns conflict; on the optimistic path it succeeds exactly
\* when the task it read is still stored with the topic, state and nonce read,
\* and returns conflict when another operation has changed or deleted it since.
C36_ForceCommitByPath ==
    [][(last'.op = "Commit" /\ last'.nonce = EmptyNonce)
       => /\ Direct => /\ last'.status \in {"ok", "notfound"}
                       /\ last'.status = "ok" <=> \E t \in tasks : t.id = last'.id
                       /\ (engine = "mongodb" /\ fallback["Commit"] = 1) => last'.status = "notfound"
          /\ \A p \in Procs :
                /\ ~(pc[p] = "commitExists" /\ pc'[p] # pc[p])
                /\ (pc[p] = "commitUpdate" /\ pc'[p] # pc[p])
                   => /\ last'.status \in {"ok", "conflict"}
                      /\ last'.status = "ok" <=>
                            \E t \in tasks : /\ t.id = last'.id
                                             /\ t.topic = loc[p].c.topic
                                             /\ t.state = loc[p].c.state
                                             /\ t.nonce = loc[p].c.nonce]_vars

\* two callers have committed the same task, one of them without a nonce on the
\* optimistic path, and that one was answered conflict
C36_Witness ==
    /\ engine = "mongodb"
    /\ fallback["Commit"] = 1
    /\ \E p, q \in Procs :
          /\ p # q
          /\ ret[p].op = "Commit" /\ ret[p].nonce = EmptyNonce /\ ret[p].status = "conflict"
          /\ ret[q].op = "Commit" /\ ret[q].status = "ok" /\ ret[q].id = ret[p].id

\* ------------------------------------------------- chore against commit
\* an active task claimed under a nonce, with a deadline that has passed or is
\* about to pass
Claim == [Expiring("1", TaskStateActive, Epoch) EXCEPT !.nonce = ClientNonce, !.deadline = Some(Epoch)]

InitChoreRace == \E c \in Configs : InitWith(c, {Claim}, FALSE, {"c1", "c2"})

NextChoreRace ==
    \/ Tick
    \/ Chore
    \/ \E p \in Procs : Commit(p)
    \/ \E p \in Procs : CommitExists(p)
    \/ \E p \in Procs : CommitUpdate(p)

SpecChoreRace == InitChoreRace /\ [][NextChoreRace]_vars

\* a commit under the nonce of the claim succeeds only while the claim stands,
\* and is answered conflict once the claim is gone
CommitSerialised ==
    (last'.op = "Commit" /\ last'.nonce = Claim.nonce)
    => /\ last'.status = "ok" => \E t \in tasks : t.id = last'.id /\ t.nonce = Claim.nonce
       /\ (\E t \in tasks : t.id = last'.id /\ t.nonce # Claim.nonce) => last'.status = "conflict"

\* C37: a Chore pass racing with a Commit on the same expired active task is
\* serialised: either the commit wins and the task keeps the committed state,
\* the chore not resetting it to pending, or the recovery wins and the commit
\* under the old nonce returns conflict; never both.
C37_ChoreCommit ==
    [][/\ CommitSerialised
       /\ last'.op = "Chore" =>
             \A t \in tasks, u \in tasks' : (t.nonce # Claim.nonce /\ u.id = t.id) => u = t]_vars

\* C37 amended: the same, except that a commit whose target state is active
\* leaves the task active under its old deadline, and a later Chore pass
\* recovers such a task.
C37_ChoreCommitUnlessActive ==
    [][/\ CommitSerialised
       /\ last'.op = "Chore" =>
             \A t \in tasks, u \in tasks' :
                u.id = t.id =>
                   /\ (t.nonce # Claim.nonce /\ t.state # TaskStateActive) => u = t
                   /\ u # t => /\ t.state = TaskStateActive
                               /\ ~After(Val(t.deadline), now)
                               /\ u = mongoUpdateOpsRecover(t)]_vars

\* the recovery has won: the chore has reset the claim and the commit under its
\* nonce was answered conflict
C37_Witness ==
    /\ last.op = "Commit"
    /\ last.nonce = Claim.nonce
    /\ last.status = "conflict"
    /\ \E t \in tasks : t.id = Claim.id /\ t.state = TaskStatePending /\ t.nonce = EmptyNonce
                        /\ t.payload = Claim.payload

\* ------------------------------------------------------- optimistic retry
\* polls and upsert-promises on the optimistic path, racing for the same tasks;
\* a call that has started goes on running
InitRetry ==
    \E store \in PollStores :
        InitWith([engine |-> "mongodb", sharded |-> FALSE, fallback |-> Fallback(1)],
                 store, FALSE, {"c1", "c2"})

NextRetry ==
    \/ \E p \in Procs : Poll(p)
    \/ \E p \in Procs : PollUpdate(p)
    \/ \E p \in Procs : PollRetry(p)
    \/ \E p \in Procs : UpsertPromise(p)
    \/ \E p \in Procs : UpsertPromiseUpdate(p)
    \/ \E p \in Procs : UpsertPromiseRetry(p)

SpecRetry ==
    /\ InitRetry
    /\ [][NextRetry]_vars
    /\ \A p \in Procs : /\ WF_vars(PollUpdate(p))
                        /\ WF_vars(PollRetry(p))
                        /\ WF_vars(UpsertPromiseUpdate(p))
                        /\ WF_vars(UpsertPromiseRetry(p))

\* where a call on the optimistic path stands between its commands
InOptimistic == {"pollUpdate", "pollPeek", "upsertPromiseUpdate", "upsertPromisePeek"}

\* the candidate the caller read is stored as it was read
Unmodified(p) == \E d \in tasks : peek(d) = loc[p].c

\* C38: Poll and UpsertPromise on the optimistic path terminate: a call retries
\* only when another caller has modified its candidate since the call read it,
\* the retry reads the task anew, and every call that has started returns (as
\* long as nonce.Generate can supply a nonce to the claim).
C38_RetryTerminates ==
    /\ [][\A p \in Procs :
             /\ (pc[p] = "pollUpdate" /\ pc'[p] = "pollPeek") => ~Unmodified(p)
             /\ (pc[p] = "upsertPromiseUpdate" /\ pc'[p] = "upsertPromisePeek") => ~Unmodified(p)
             /\ (pc[p] \in {"pollPeek", "upsertPromisePeek"}
                 /\ pc'[p] \in {"pollUpdate", "upsertPromiseUpdate"})
                => \E d \in tasks : loc'[p].c = peek(d)]_vars
    /\ \A p \in Procs : (pc[p] \in InOptimistic) ~> (Idle(p) \/ ~CanGenerate)

\* a caller is about to retry its poll: the other caller has claimed the only
\* pending task of the topic since the poll read it
C38_Witness ==
    \E p \in Procs : /\ pc[p] = "pollPeek"
                      /\ ~\E t \in tasks : t.topic = loc[p].topic /\ t.state = TaskStatePending

\* C39: a failing Chore pass does not stop the chore loop: after a pass, with
\* an error or without, the loop waits for the next tick; the loop ends only on
\* a termination signal or when the context is cancelled; with an interval of
\* zero or less no pass is ever run.
C39_ChoreLoop ==
    [][/\ (srv.chore = "pass" /\ srv'.chore # "pass") => srv'.chore = "waiting"
       /\ (srv.chore = "waiting" /\ srv'.chore \notin {"waiting", "pass"})
          => \/ srv.choreCh /\ srv.signalled /\ srv'.chore = "returned"
             \/ srv.ctxDone /\ srv'.chore = "cancelled"
       /\ (srv'.started /\ srv'.interval <= 0)
          => (srv'.chore = "returned" /\ srv'.passes = 0)]_vars

\* a pass has failed and the next pass has run and succeeded
C39_Witness ==
    /\ srv.failedPass
    /\ srv.passes = 2
    /\ srv.chore = "waiting"
    /\ last.op = "Chore"
    /\ last.status = "ok"

\* ------------------------------------------------------- client commits
\* a subscriber of the in-memory engine, the clock and the chore loop
InitClient ==
    \E store \in PollStores :
        InitWith([engine |-> "memdb", sharded |-> FALSE, fallback |-> Fallback(0)],
                 store, FALSE, {})

NextClient ==
    \/ Tick
    \/ Chore
    \/ ClientPoll
    \/ ContextCommit
    \/ HandlerReturn

SpecClient == InitClient /\ [][NextClient]_vars

\* C40: a client Context applies its commit at most once: once a Commit has
\* succeeded, every further Commit call, the automatic one of Subscribe
\* included, returns nil without sending a request; a Commit that fails leaves
\* the Context uncommitted, and the next call sends again.
C40_CommitOnce ==
    [][last'.op = "ContextCommit"
       => /\ cli.committed => /\ last'.status = "nil"
                              /\ cli'.sent = cli.sent
                              /\ tasks' = tasks
                              /\ cli'.committed
          /\ ~cli.committed => /\ cli'.sent = cli.sent + 1
                               /\ cli'.committed <=> last'.status = "nil"
          /\ cli'.applied <= 1]_vars

\* a Commit failed, the next one was sent and succeeded, and the automatic
\* commit returned nil without a request
C40_Witness ==
    /\ last.op = "ContextCommit"
    /\ last.status = "nil"
    /\ cli.calls = 3
    /\ cli.sent = 2
    /\ cli.applied = 1
    /\ cli.committed

====
